----------------------------- MODULE RunControl -----------------------------
(***************************************************************************)
(* Lifecycle claims over the run ledger of HostRuns: the durable fence an  *)
(* operator control or a reaper puts on a worker before it touches the     *)
(* runtime, the transaction that finalizes it, and its recovery after the  *)
(* owner was lost (compute_release_* columns of workers).                  *)
(*                                                                         *)
(* A control holds the worker's flock from its claim to its finalization,  *)
(* so a claim is taken over only after the owner lost it (a crash, or an   *)
(* error that leaves the claim in place) and its TTL passed: OwnerLost     *)
(* stands for both.  The target's started_at, which claim and finalization *)
(* compare, is written once per run and never while a claim is pending     *)
(* (MarkInvoked), so the comparison always succeeds and is left out; so is *)
(* compute_released_at, which may only refuse a claim.                     *)
(***************************************************************************)
EXTENDS HostRuns

CONSTANT Kinds      \* the claim kinds that callers use
ASSUME KindsAssumption == Kinds \subseteq ClaimKinds

-----------------------------------------------------------------------------
\* What try_claim_worker_compute_release looks at

RunsOf(w) == {q \in Runs : WorkerOf[q] = w}
NonterminalOf(w) == {q \in RunsOf(w) : run[q].st \in NonterminalStates}
InState(w, S) == {q \in RunsOf(w) : run[q].st \in S}
ActiveLeases(w) == {q \in RunsOf(w) : lease[q].st = "active"}
ProcessBearing == {"running", "settling", "paused"}

NoOtherExecuting(w, r) == InState(w, ProcessBearing) \subseteq {r}
OnlyOwnLease(w, r) == ActiveLeases(w) \subseteq {r}

\* The states in which a fresh claim may find its target.
ClaimableTargets(k) ==
    CASE k = "pause_run"     -> {"queued", "running", "settling"}
      [] k = "resume_run"    -> {"paused"}
      [] k = "interrupt_run" -> {"running", "settling"}
      [] k = "steer_run"     -> {"queued", "running", "settling"}
      [] k = "max_duration"  -> {"running", "settling"}
      [] k \in StopKinds     -> NonterminalStates

TargetOk(w, k, r, fresh) ==
    /\ r \in RunsOf(w)
    /\ run[r].st # "none"
    /\ fresh => run[r].st \in ClaimableTargets(k)

\* The policy of one kind on target r (0: no target).
Policy(w, k, r, fresh) ==
    \/ /\ k \in RunClaimKinds
       /\ TargetOk(w, k, r, fresh)
       /\ NoOtherExecuting(w, r)
       /\ OnlyOwnLease(w, r)
    \/ /\ k = "stop_run"
       /\ TargetOk(w, k, r, fresh)
       /\ NoOtherExecuting(w, r)
       /\ \A p, q \in ActiveLeases(w) : p = q
       /\ \A q \in ActiveLeases(w) \ {r} : PreacceptOnly(q)
       /\ fresh => ~worker[w].stop
    \/ /\ k = "terminate_worker"
       /\ OnlyOwnLease(w, r)
       /\ InState(w, ProcessBearing) \subseteq {r}
       /\ r # 0 => TargetOk(w, k, r, fresh)
    \/ /\ k = "idle"
       /\ InState(w, ProcessBearing) \subseteq {r}
       /\ ActiveLeases(w) = {}
       /\ \/ ~fresh
          \/ r = 0 /\ NonterminalOf(w) = {}
          \/ r \in InState(w, {"queued"}) /\ NonterminalOf(w) \subseteq InState(w, {"queued"})
    \/ /\ k = "needs_input"
       /\ InState(w, {"needs_input"}) = {r}
       /\ worker[w].st = "needs_input"
       /\ NoOtherExecuting(w, r)
       /\ ActiveLeases(w) = {}
    \/ /\ k \in {"pause_worker", "resume_worker"}
       /\ r = 0
       /\ NonterminalOf(w) = {}
       /\ ActiveLeases(w) = {}
       /\ worker[w].st \notin {"stopping", "terminated"}
       /\ k = "resume_worker" => worker[w].st = "paused"
    \/ /\ k = "paused" /\ r # 0
       /\ worker[w].st \in {"paused", "stopping"}
       /\ InState(w, {"running", "settling", "needs_input"}) = {}
       /\ \/ InState(w, {"paused"}) = {r}
          \/ ~fresh /\ InState(w, {"paused"}) = {} /\ r \in InState(w, TerminalStates)
       /\ OnlyOwnLease(w, r)
    \/ /\ k = "paused" /\ r = 0 /\ fresh
       /\ worker[w].st = "paused"
       /\ NonterminalOf(w) = {}
       /\ ActiveLeases(w) = {}

\* The kinds that move the worker to 'stopping' when they are claimed.
StoppingKinds == StopKinds \cup {"max_duration"}
ClaimedState(w, k) == IF k \in StoppingKinds THEN "stopping" ELSE worker[w].st

-----------------------------------------------------------------------------
\* Claiming, losing and taking over

ClaimRow(w, k, r, q) ==
    [st |-> ClaimedState(w, k), kind |-> k, target |-> r, repl |-> q,
     proof |-> FALSE, held |-> TRUE, stop |-> worker[w].stop \/ k = "stop_run"]

\* try_claim_worker_compute_release, no claim pending.
Claim(w, k, r) ==
    /\ worker[w].kind = "none"
    /\ k # "steer_run"
    /\ Policy(w, k, r, TRUE)
    /\ worker' = [worker EXCEPT ![w] = ClaimRow(w, k, r, 0)]
    /\ UNCHANGED <<run, attempt, lease>>

\* The same for a steer, which also inserts the replacement run.
ClaimSteer(w, r, q) ==
    /\ worker[w].kind = "none"
    /\ Policy(w, "steer_run", r, TRUE)
    /\ WorkerOf[q] = w
    /\ IsNextRun(q)
    /\ run' = [run EXCEPT ![q] = NewRunRow]
    /\ worker' = [worker EXCEPT ![w] = ClaimRow(w, "steer_run", r, q)]
    /\ UNCHANGED <<attempt, lease>>

\* The owner dies, or fails and leaves the fence in place.
OwnerLost(w) ==
    /\ worker[w].held
    /\ worker' = [worker EXCEPT ![w].held = FALSE]
    /\ UNCHANGED <<run, attempt, lease>>

\* Mutant of Takeover: recovery applies the policy of a fresh claim.
TakeoverAsFresh(w) ==
    LET c == worker[w]
    IN  /\ c.kind # "none"
        /\ ~c.held
        /\ Policy(w, c.kind, c.target, TRUE)
        /\ worker' = [worker EXCEPT ![w].held = TRUE, ![w].st = ClaimedState(w, c.kind)]
        /\ UNCHANGED <<run, attempt, lease>>

\* try_claim_worker_compute_release against an expired claim of the same kind and
\* target; the replacement of a steer must not have started.
Takeover(w) ==
    LET c == worker[w]
    IN  /\ c.kind # "none"
        /\ ~c.held
        /\ Policy(w, c.kind, c.target, FALSE)
        /\ c.kind = "steer_run" => run[c.repl].st \in {"queued"} \cup TerminalStates
        /\ worker' = [worker EXCEPT ![w].held = TRUE, ![w].st = ClaimedState(w, c.kind)]
        /\ UNCHANGED <<run, attempt, lease>>

\* confirm_worker_control_runtime_effect
ConfirmEffect(w) ==
    /\ worker[w].kind \in RunClaimKinds \ {"max_duration"}
    /\ worker[w].held
    /\ ~worker[w].proof
    /\ worker' = [worker EXCEPT ![w].proof = TRUE]
    /\ UNCHANGED <<run, attempt, lease>>

-----------------------------------------------------------------------------
\* Finalizing

Owns(w, k) == worker[w].kind = k /\ worker[w].held

\* COMPUTE_OPERATION_CLEAR_FIELDS and the state the worker goes to.
ClearClaim(w, s) ==
    worker' = [worker EXCEPT ![w] =
                [@ EXCEPT !.st = s, !.kind = "none", !.target = 0, !.repl = 0,
                          !.proof = FALSE, !.held = FALSE]]

\* The state that the run rows suggest for an otherwise idle worker.
StateFromRuns(R, idle) ==
    CASE \E q \in R : run'[q].st \in {"running", "settling"} -> "running"
      [] \E q \in R : run'[q].st = "queued"                  -> "starting"
      [] OTHER                                               -> idle

\* finalize_worker_run_control_claim, the target ended first.  A worker that is
\* being closed keeps the claim.
TerminalWon(w) ==
    LET t == worker[w].target
    IN  /\ \E k \in {"pause_run", "resume_run", "interrupt_run"} : Owns(w, k)
        /\ run[t].st \in TerminalStates
        /\ worker[w].st \notin ClosedStates
        /\ lease' = Release({t})
        /\ ClearClaim(w, "ready")
        /\ UNCHANGED <<run, attempt>>

\* finalize_worker_run_control_claim for a pause.  The pause of a host process
\* ended it, so its lease is released; a frozen container keeps it.
FinalizePause(w, host) ==
    LET t == worker[w].target
    IN  /\ Owns(w, "pause_run")
        /\ run[t].st \in ClaimableTargets("pause_run")
        /\ run[t].st # "queued" => worker[w].proof
        /\ run' = [run EXCEPT ![t].st = "paused", ![t].due = TRUE]
        /\ lease' = IF host /\ run[t].st # "queued" THEN Release({t}) ELSE lease
        /\ ClearClaim(w, "paused")
        /\ UNCHANGED attempt

\* Mutant of FinalizeResumeQueued: the restarted run's attempt stays open.
ResumeKeepsAttempt(w) ==
    LET t == worker[w].target
    IN  /\ Owns(w, "resume_run")
        /\ run[t].st = "paused"
        /\ worker[w].proof
        /\ run' = [run EXCEPT ![t] = Requeued(run[t], TRUE)]
        /\ lease' = IF run[t].att # 0 THEN Release({t}) ELSE lease
        /\ ClearClaim(w, "starting")
        /\ UNCHANGED attempt

\* finalize_worker_run_control_claim for a resume that restarts the run: the open
\* attempt is closed and a closed queue wait reopens.
FinalizeResumeQueued(w) ==
    LET t == worker[w].target
    IN  /\ Owns(w, "resume_run")
        /\ run[t].st = "paused"
        /\ worker[w].proof
        /\ run[t].att # 0 => Open(attempt[t][run[t].att])
        /\ run' = [run EXCEPT ![t] = Requeued(run[t], TRUE)]
        /\ attempt' = EndCurrent({t})
        /\ lease' = IF run[t].att # 0 THEN Release({t}) ELSE lease
        /\ ClearClaim(w, "starting")

\* The same for a frozen container that goes on in place.
FinalizeResumeRunning(w) ==
    LET t == worker[w].target
    IN  /\ Owns(w, "resume_run")
        /\ run[t].st = "paused"
        /\ worker[w].proof
        /\ RunningGenerationExact(t)
        /\ run' = [run EXCEPT ![t].st = "running", ![t].due = TRUE]
        /\ ClearClaim(w, "running")
        /\ UNCHANGED <<attempt, lease>>

\* finalize_worker_run_control_claim for an interrupt; the attempt row stays open.
FinalizeInterrupt(w) ==
    LET t == worker[w].target
    IN  /\ Owns(w, "interrupt_run")
        /\ run[t].st \in {"running", "settling"}
        /\ worker[w].proof
        /\ run' = [run EXCEPT ![t] = Terminated(run[t], "interrupted")]
        /\ lease' = Release({t})
        /\ ClearClaim(w, "ready")
        /\ UNCHANGED attempt

\* finalize_worker_operation_claim (max_duration): a target that is not executing
\* any more keeps its state.
FinalizeMaxDuration(w) ==
    LET t == worker[w].target
    IN  /\ Owns(w, "max_duration")
        /\ run' = IF run[t].st \in {"running", "settling"}
                  THEN [run EXCEPT ![t] = Terminated(run[t], "cancelled")]
                  ELSE run
        /\ lease' = Release({t})
        /\ ClearClaim(w, StateFromRuns(RunsOf(w), "paused"))
        /\ UNCHANGED attempt

\* Everything the worker still had to do is cancelled.
CancelAll(w) ==
    /\ run' = [q \in Runs |-> IF q \in NonterminalOf(w)
                              THEN Terminated(run[q], "cancelled") ELSE run[q]]
    /\ attempt' = [q \in Runs |-> [a \in Attempts |->
                    IF WorkerOf[q] = w THEN Ended(attempt[q][a]) ELSE attempt[q][a]]]
    /\ lease' = Release(RunsOf(w))

\* finalize_worker_work_stop_claim
FinalizeStop(w) ==
    /\ Owns(w, "stop_run")
    /\ worker[w].stop
    /\ CancelAll(w)
    /\ ClearClaim(w, "ready")

\* finalize_worker_termination_claim
FinalizeTermination(w) ==
    /\ Owns(w, "terminate_worker")
    /\ CancelAll(w)
    /\ ClearClaim(w, "terminated")

\* finalize_worker_steer_claim.  The target was interrupted before: the replacement
\* waits, or has even ended.
SteerInterrupted(w, t, waiting) ==
    /\ run[t].st = "interrupted"
    /\ lease' = Release({t})
    /\ ClearClaim(w, waiting)
    /\ UNCHANGED run

\* The target ended by itself: the replacement is suppressed while it is queued.
SteerTerminalWon(w, t, q) ==
    /\ run[t].st \in TerminalStates \ {"interrupted"}
    /\ IF run[q].st = "queued"
       THEN /\ run' = [run EXCEPT ![q] = Terminated(run[q], "cancelled")]
            /\ lease' = Release({t, q})
       ELSE run' = run /\ lease' = Release({t})
    /\ ClearClaim(w, "ready")

\* The target is ended now, when its process is proven gone or it never started.
SteerConfirmed(w, t, waiting) ==
    /\ run[t].st \in ClaimableTargets("steer_run")
    /\ run[t].st # "queued" => worker[w].proof
    /\ run' = [run EXCEPT ![t] = Terminated(run[t],
                  IF run[t].st = "queued" THEN "cancelled" ELSE "interrupted")]
    /\ lease' = Release({t})
    /\ ClearClaim(w, waiting)

FinalizeSteer(w) ==
    LET t == worker[w].target
        q == worker[w].repl
        waiting == IF run[q].st = "queued" THEN "starting" ELSE "ready"
    IN  /\ Owns(w, "steer_run")
        /\ run[q].st \in {"queued"} \cup TerminalStates
        /\ SteerInterrupted(w, t, waiting) \/ SteerTerminalWon(w, t, q) \/ SteerConfirmed(w, t, waiting)
        /\ UNCHANGED attempt

\* The next state of a worker whose compute is gone.
ComputeState(w) ==
    LET c == worker[w]
        capacityWait == c.kind = "idle" /\ c.target # 0 /\ run[c.target].st = "queued"
        active == InState(w, {"running", "settling"}) # {}
    IN  CASE c.st \in ClosedStates                          -> c.st
          [] c.kind = "pause_worker"                        -> "paused"
          [] c.kind = "resume_worker"                       -> "ready"
          [] c.st \in {"paused", "needs_input"}             -> c.st
          [] active                                         -> "running"
          [] capacityWait                                   -> "ready"
          [] InState(w, {"queued"}) # {}                    -> "starting"
          [] OTHER                                          -> "paused"

\* finalize_worker_compute_release
FinalizeCompute(w) ==
    /\ worker[w].kind \in ComputeKinds
    /\ worker[w].held
    /\ lease' = IF worker[w].kind = "paused" THEN Release({worker[w].target}) ELSE lease
    /\ ClearClaim(w, ComputeState(w))
    /\ UNCHANGED <<run, attempt>>

\* abandon_worker_run_control_claim: the resume could not start the runtime, which
\* is tried only while no runtime effect is proven.
AbandonResume(w) ==
    /\ Owns(w, "resume_run") \/ Owns(w, "resume_worker")
    /\ ~worker[w].proof
    /\ ClearClaim(w, "paused")
    /\ UNCHANGED <<run, attempt, lease>>

\* abandon_stale_worker_compute_release_claim: an idle release finds that the
\* worker has work again.
AbandonIdle(w) ==
    /\ Owns(w, "idle")
    /\ InState(w, DispatchStates \cup {"queued"}) # {}
    /\ ~(worker[w].target # 0 /\ run[worker[w].target].st = "queued")
    /\ ClearClaim(w, CASE InState(w, {"running", "settling"}) # {} -> "running"
                       [] InState(w, {"queued"}) # {}              -> "starting"
                       [] OTHER                                    -> worker[w].st)
    /\ UNCHANGED <<run, attempt, lease>>

\* begin_worker_compute_start
BeginComputeStart(w) ==
    /\ worker[w].kind = "none"
    /\ ~worker[w].stop
    /\ worker[w].st \notin {"stopping", "terminated"}
    /\ SetWorker(w, "starting")
    /\ UNCHANGED <<run, attempt, lease>>

-----------------------------------------------------------------------------

FinalizeClaim(w) ==
    \/ TerminalWon(w)
    \/ \E host \in BOOLEAN : FinalizePause(w, host)
    \/ FinalizeResumeQueued(w)
    \/ FinalizeResumeRunning(w)
    \/ FinalizeInterrupt(w)
    \/ FinalizeMaxDuration(w)
    \/ FinalizeStop(w)
    \/ FinalizeTermination(w)
    \/ FinalizeSteer(w)
    \/ FinalizeCompute(w)

ControlStep(w) ==
    \/ \E k \in Kinds, r \in Runs \cup {0} : Claim(w, k, r)
    \/ "steer_run" \in Kinds /\ \E r, q \in Runs : ClaimSteer(w, r, q)
    \/ OwnerLost(w)
    \/ Takeover(w)
    \/ ConfirmEffect(w)
    \/ FinalizeClaim(w)
    \/ AbandonResume(w)
    \/ AbandonIdle(w)
    \/ BeginComputeStart(w)

ControlNext == Next \/ \E w \in Workers : ControlStep(w)

ControlSpec == Init /\ [][ControlNext]_vars

\* recover_expired_compute_release_claims_once runs in every reaper cycle and
\* re-enters the same control path; a runtime that is asked again and again
\* confirms in the end.
ControlFairness ==
    \A w \in Workers :
        /\ WF_vars(Takeover(w))
        /\ SF_vars(ConfirmEffect(w))
        /\ SF_vars(FinalizeClaim(w))

FairControlSpec == ControlSpec /\ ControlFairness

-----------------------------------------------------------------------------
\* What claims promise

\* A settled Work Stop is final ("Settle a public work-scoped Stop without
\* reopening the worker later"): no run of the worker is dispatched again, neither
\* one that was queued before the stop nor one that is created after it.
StopIsFinal ==
    \A w \in Workers :
        worker[w].stop /\ worker[w].kind # "stop_run" => InState(w, DispatchStates) = {}

\* The replacement that a steer reserved is still where the finalization and the
\* takeover need it: in the queue or ended, never claimed or paused.
ReplacementHeld ==
    \A w \in Workers :
        worker[w].kind = "steer_run" =>
            /\ worker[w].repl \in RunsOf(w) \ {worker[w].target}
            /\ run[worker[w].repl].st \in {"queued"} \cup TerminalStates

\* What a stop ended and what a steer reserved stay as they are.
StopAndSteerHold == StopIsFinal /\ ReplacementHeld

\* The compute of a worker is released only while nothing executes on it, and
\* nothing starts before the release is over ("neutral idle/paused teardown").  An
\* idle release also finds no run on its way from the claim to the invocation.
ReleaseFindsIdle ==
    \A w \in Workers :
        /\ worker[w].kind \in ComputeKinds => InState(w, {"running", "settling"}) = {}
        /\ worker[w].kind = "idle" => InState(w, DispatchStates) = {}

\* A paused run stays paused until the resume that targets it, or its end: no
\* retry, requeue or recovery wakes it.
PausedStaysPaused ==
    [][\A r \in Runs :
          run[r].st = "paused" =>
              \/ run'[r].st \in {"paused"} \cup TerminalStates
              \/ W(r).kind = "resume_run" /\ W(r).target = r]_vars

\* A Work Stop or a duration limit that was claimed is settled, however often its
\* owner is lost and whatever the run does meanwhile.
StopSettles ==
    \A w \in Workers :
        (worker[w].kind \in {"stop_run", "max_duration"}) ~> (worker[w].kind = "none")

\* "Recovery may observe that Docker recreated an otherwise idle worker after the
\* original destructive attempt failed": a pending compute release of a worker
\* that is not being closed is finished or given up, its fence does not stay.
ReleaseSettles ==
    \A w \in Workers :
        (worker[w].kind \in ComputeKinds) ~>
            (worker[w].kind = "none" \/ worker[w].st \in ClosedStates)

\* "resumable Workers that can pause, resume, interrupt, and terminate cleanly": a
\* resume that was claimed is settled, unless the worker is closed instead.
ResumeSettles ==
    \A w \in Workers :
        (worker[w].kind = "resume_run") ~>
            (worker[w].kind = "none" \/ worker[w].st \in ClosedStates)
=============================================================================
