----------------------------- MODULE ActiveWork -----------------------------
(* Active work: the actions that an owner sends for one delegation, and the
   receipts that make them idempotent.  One worker executes the delegation.  A
   request carries an idempotency key; its receipt is a row of
   active_work_action_uses.  The run that a key creates has an identity derived
   from the key, so it is run k here; run 0 is the run the delegation started
   with.  Capability actions (retry_run, cancel_run) keep their receipts in
   run_action_uses.

   Pause, resume, steer and stop go through a claim on the worker whose runtime
   effect and finalisation are those of RunControl; here the claim is reduced to
   its operation, its target and the receipt bound to it.  A service process
   handles one request at a time in the model, holds the worker's lock from the
   claim to the finalisation, and may die at any step.  The native-input variant
   of resume is left out.                                                    *)
EXTENDS Naturals, FiniteSets

CONSTANTS Keys,         \* idempotency keys and capability ids, numbers >= 1
          Mixes,        \* the actions that the keys may request, a set of functions
          Executors,    \* service processes
          FirstStates,  \* states in which the first run may be found
          MaxOps,       \* bound on lifecycle operations
          MaxMishaps,    \* bound on deaths, errors and leases that run out too early
          SlowExecutors \* may a receipt's lease expire under a live process?

ASSUME KeysAssumption ==
    Keys \subseteq Nat \ {0} /\ IsFiniteSet(Keys) /\ \A m \in Mixes : m \in [Keys -> STRING]
ASSUME ExecutorsAssumption == "" \notin Executors
ASSUME OpsAssumption == MaxOps \in Nat /\ MaxMishaps \in Nat /\ SlowExecutors \in BOOLEAN

VARIABLES ActionOf,   \* the action that each key requests
          run,        \* runs of the worker: state and order of creation
          current,    \* delegations.current_run_id
          dismissed,  \* delegations.dismissed_at is set
          worker,     \* the worker's state and its stop tombstone
          claim,      \* the lifecycle claim on the worker
          lastOp,     \* operations begun
          proven,     \* lifecycle events recorded, per operation
          use,        \* receipts
          call,       \* the request that each process handles
          lock,       \* holder of the worker's lifecycle lock, "" if none
          dead,       \* processes that died
          mishaps,    \* faults so far
          effects     \* history: how often the key's action took effect

ledger == <<run, current, dismissed, worker, claim, lastOp, proven, effects>>
awVars == <<ActionOf, run, current, dismissed, worker, claim, lastOp, proven, use, call, lock, dead,
            mishaps, effects>>

Runs == {0} \cup Keys
OverStates == {"completed", "failed", "cancelled", "interrupted"}
Controllable == {"queued", "running", "paused", "needs_input"}
RunStates == {"none"} \cup OverStates \cup Controllable

Creating == {"queue", "message", "retry"}
Controls == {"pause", "resume", "steer", "stop"}
Capabilities == {"retry_run", "cancel_run"}
Actions == Creating \cup Controls \cup Capabilities \cup {"dismiss"}

NoClaim == [op |-> 0, act |-> "", target |-> 0, repl |-> 0, from |-> "", expired |-> FALSE]
NoUse == [st |-> "none", source |-> 0, op |-> 0, exec |-> "", live |-> FALSE, resp |-> ""]
NoCall == [pc |-> "idle", key |-> 0, run |-> 0, cur |-> 0, st |-> "", res |-> "", adv |-> FALSE]

AwTypeOK ==
    /\ run \in [Runs -> [st : RunStates, at : 0 .. Cardinality(Runs)]]
    /\ current \in Runs /\ dismissed \in BOOLEAN
    /\ worker \in [st : {"ready", "starting", "paused", "stopping"}, stop : 0 .. MaxOps,
                   outcome : {"", "cancelled", "completion_won"}]
    /\ claim \in [op : 0 .. MaxOps, act : Controls \cup {""}, target : Runs, repl : Runs,
                  from : RunStates \cup {""}, expired : BOOLEAN]
    /\ lastOp \in 0 .. MaxOps
    /\ proven \subseteq (1 .. MaxOps) \X {"paused", "resumed", "readmitted", "interrupted",
                                          "cancelled", "completion_won", "terminal_won"}
    /\ \A k \in Keys : use[k].st \in {"none", "pending", "completed", "failed", "refused",
                                      "executing", "accepted", "conflict"}
    /\ lock \in Executors \cup {""} /\ dead \subseteq Executors /\ mishaps \in 0 .. MaxMishaps
    /\ effects \in [Keys -> Nat]

AwInit ==
    /\ ActionOf \in Mixes
    /\ \E s \in FirstStates :
         /\ run = [r \in Runs |-> IF r = 0 THEN [st |-> s, at |-> 1] ELSE [st |-> "none", at |-> 0]]
         /\ worker = [st |-> IF s = "paused" THEN "paused" ELSE "ready", stop |-> 0,
                      outcome |-> ""]
    /\ current = 0 /\ dismissed = FALSE
    /\ claim = NoClaim /\ lastOp = 0 /\ proven = {}
    /\ use = [k \in Keys |-> NoUse]
    /\ call = [e \in Executors |-> NoCall]
    /\ lock = "" /\ dead = {} /\ mishaps = 0
    /\ effects = [k \in Keys |-> 0]

-----------------------------------------------------------------------------
\* The run that the delegation shows

InState(S) == {r \in Runs : run[r].st \in S}
Rank(s) == CASE s = "running" -> 0 [] s = "paused" -> 1 [] s = "needs_input" -> 2 [] OTHER -> 3

\* The worker's controllable run by state, the youngest first; else the current run.
Selected ==
    IF InState(Controllable) = {} THEN current
    ELSE CHOOSE r \in InState(Controllable) :
           \A q \in InState(Controllable) :
              \/ Rank(run[r].st) < Rank(run[q].st)
              \/ Rank(run[r].st) = Rank(run[q].st) /\ run[r].at >= run[q].at

\* _active_work_service_state and _active_work_service_actions
Offered ==
    LET s == run[Selected].st
    IN  IF worker.st = "stopping" THEN {}
        ELSE CASE s \in {"needs_input", "paused"} \/ (worker.st = "paused" /\ s \in Controllable)
                    -> {"queue", "message", "resume", "stop"}
               [] worker.st # "paused" /\ s \in {"queued", "running"}
                    -> {"queue", "message", "steer", "pause", "stop"}
               [] s = "failed" -> {"retry", "queue", "message", "dismiss"}
               [] OTHER -> {"queue", "message", "dismiss"}

\* Mutant: work is refused only while the stop is carried out.
AdmitsUntilSettled == worker.st # "stopping"

\* _require_worker_work_admission
AdmitsWork == worker.stop = 0
NewRun == [st |-> "queued", at |-> 1 + Cardinality(Runs \ InState({"none"}))]

-----------------------------------------------------------------------------
\* Service processes

Alive(e) == e \notin dead
At(e, pcs) == Alive(e) /\ call[e].pc \in pcs
K(e) == call[e].key
Act(e) == ActionOf[K(e)]
Goto(e, p) == call' = [call EXCEPT ![e] = [NoCall EXCEPT !.pc = p, !.key = call[e].key]]
Reply(e) == call' = [call EXCEPT ![e] = NoCall]
Answer(e, r, res, adv) ==
    call' = [call EXCEPT ![e] = [NoCall EXCEPT !.pc = "answer", !.key = call[e].key, !.run = r,
                                               !.res = res, !.adv = adv]]

\* active_work_action: the delegation as it is read before the reservation, which compares
\* it when the key is new.
Begin(e, k) ==
    /\ At(e, {"idle"})
    /\ ActionOf[k] \notin Capabilities
    /\ call' = [call EXCEPT ![e] =
                  IF use[k].st = "none"
                  THEN [NoCall EXCEPT !.pc = "read", !.key = k, !.run = Selected,
                                      !.cur = current, !.st = run[Selected].st]
                  ELSE [NoCall EXCEPT !.pc = "read", !.key = k]]
    /\ UNCHANGED <<ledger, use, lock, dead, mishaps>>

GenerationChanged(e) ==
    \/ call[e].cur # current
    \/ call[e].run # Selected
    \/ call[e].st # run[Selected].st

Own(e, k, st) == use' = [use EXCEPT ![k].st = st, ![k].exec = e, ![k].live = TRUE]
MayTakeOver(e, k) == use[k].exec # e /\ ~use[k].live

\* A control that was reserved but never bound is not executed a second time.
Readmit(e, k, next) ==
    Goto(e, IF ActionOf[k] \in Controls /\ use[k].op = 0 THEN "unbound" ELSE next)

\* reserve_active_work_action: a first reservation, the stored answer, or a replay of an
\* unfinished action, which only a process whose predecessor lost its lease may execute.
Reserve(e) ==
    /\ At(e, {"read"})
    /\ LET k == K(e)
           fenced == ActionOf[k] \notin {"stop", "dismiss"} /\ ~AdmitsWork
       IN  \/ /\ use[k].st \in {"completed", "refused"}
              /\ Reply(e) /\ UNCHANGED use
           \/ /\ use[k].st \in {"none", "pending", "failed"} /\ fenced
              /\ Reply(e) /\ UNCHANGED use
           \/ /\ use[k].st = "none" /\ ~fenced /\ GenerationChanged(e)
              /\ Reply(e) /\ UNCHANGED use
           \/ /\ use[k].st = "none" /\ ~fenced /\ ~GenerationChanged(e)
              /\ use' = [use EXCEPT ![k] = [NoUse EXCEPT !.st = "pending", !.source = Selected,
                                                         !.exec = e, !.live = TRUE]]
              /\ Goto(e, "reserved")
           \/ /\ use[k].st = "failed" /\ ~fenced
              /\ Own(e, k, "pending")
              /\ Readmit(e, k, "reserved")
           \/ /\ use[k].st = "pending" /\ ~fenced /\ MayTakeOver(e, k)
              /\ Own(e, k, "pending")
              /\ Readmit(e, k, "takeover")
           \/ /\ use[k].st = "pending" /\ ~fenced /\ ~MayTakeOver(e, k)
              /\ Goto(e, "observe") /\ UNCHANGED use
    /\ UNCHANGED <<ledger, lock, dead, mishaps>>

\* fail_unbound_active_work_control
FailUnbound(e) ==
    /\ At(e, {"unbound"})
    /\ LET k == K(e)
       IN  use' = IF use[k].st = "pending" /\ use[k].exec = e /\ use[k].op = 0
                  THEN [use EXCEPT ![k].st = "refused", ![k].live = FALSE] ELSE use
    /\ Reply(e)
    /\ UNCHANGED <<ledger, lock, dead, mishaps>>

-----------------------------------------------------------------------------
\* Recovering a receipt from the effect it left behind

\* Mutant: an event of the kind proves the action, whatever operation recorded it.
ProvesByKind(k, ev) == \E op \in 1 .. MaxOps : <<op, ev>> \in proven

Proves(k, ev) == use[k].op # 0 /\ <<use[k].op, ev>> \in proven
ClaimedFor(k) == claim.op # 0 /\ claim.target = use[k].source /\ claim.act = ActionOf[k]
Outcome(run_, res, adv) == [run |-> run_, res |-> res, adv |-> adv]
Unknown == Outcome(0, "", FALSE)

\* reconcile_active_work_action: what the durable state proves of action k.
Reconciled(k) ==
    LET a == ActionOf[k]
        src == use[k].source
        s == run[src].st
    IN  IF ClaimedFor(k) THEN Unknown
        ELSE CASE a \in Creating /\ run[k].st # "none" -> Outcome(k, "effect", TRUE)
               [] a = "steer" /\ run[k].st = "cancelled" /\ s \in OverStates
                    /\ Proves(k, "terminal_won") /\ current = src
                    -> Outcome(src, "terminal_won", FALSE)
               [] a = "steer" /\ run[k].st # "none" /\ s \in {"interrupted", "cancelled"}
                    /\ Proves(k, s) -> Outcome(k, "effect", TRUE)
               [] a \in {"pause", "resume"} /\ s \in OverStates /\ Proves(k, "terminal_won")
                    -> Outcome(src, "terminal_won", FALSE)
               [] a = "pause" /\ s = "paused" /\ Proves(k, "paused")
                    -> Outcome(src, "effect", FALSE)
               [] a = "resume" /\ s \in {"queued", "running"}
                    /\ (Proves(k, "resumed") \/ Proves(k, "readmitted"))
                    -> Outcome(src, "effect", FALSE)
               [] a = "stop" /\ use[k].op # 0 /\ worker.stop = use[k].op /\ worker.outcome # ""
                    /\ InState(Controllable) = {} /\ Proves(k, worker.outcome)
                    -> Outcome(src, IF worker.outcome = "cancelled" THEN "effect"
                                    ELSE "terminal_won", FALSE)
               [] a = "dismiss" /\ dismissed -> Outcome(src, "effect", FALSE)
               [] OTHER -> Unknown

\* A stop that is still being carried out answers that it is pending.
StopPending(k) ==
    /\ ActionOf[k] = "stop" /\ use[k].op # 0
    /\ worker.st = "stopping" /\ worker.stop = use[k].op
    /\ claim.op = use[k].op

\* active_work_action_claim_is_pending
ClaimPending(e, k) ==
    /\ use[k].st = "pending" /\ use[k].exec = e
    /\ use[k].op # 0 /\ claim.op = use[k].op

\* A replay looks for the effect first.  Without one, an observer answers that the action is
\* in progress and a process that took the receipt over executes it.
Reconcile(e) ==
    /\ At(e, {"takeover", "observe"})
    /\ LET k == K(e)
           o == Reconciled(k)
       IN  IF o # Unknown THEN Answer(e, o.run, o.res, o.adv)
           ELSE IF call[e].pc = "observe" \/ ClaimPending(e, k) THEN Reply(e)
           ELSE Goto(e, "reserved")
    /\ UNCHANGED <<ledger, use, lock, dead, mishaps>>

-----------------------------------------------------------------------------
\* Executing an action

HasWork == InState({"queued", "running", "paused"}) # {}

\* execute_active_work_action re-reads the delegation.  If it shows another run than the
\* receipt's, or does not offer the action any more, only the effect can answer.
ReadLive(e) ==
    /\ At(e, {"reserved"})
    /\ LET k == K(e)
           o == Reconciled(k)
           refused == \/ use[k].source # Selected
                      \/ Act(e) \notin Offered
       IN  \/ /\ refused /\ o # Unknown /\ Answer(e, o.run, o.res, o.adv)
           \/ /\ refused /\ o = Unknown /\ Goto(e, "failing")
           \/ /\ ~refused
              /\ \/ Act(e) = "retry" /\ HasWork
                 \/ Act(e) = "resume" /\ run[Selected].st # "needs_input" /\ worker.st # "paused"
              /\ Goto(e, "failing")
           \/ /\ ~refused
              /\ Act(e) = "retry" => ~HasWork
              /\ Act(e) = "resume" => run[Selected].st = "needs_input" \/ worker.st = "paused"
              /\ call' = [call EXCEPT ![e].pc = "exec", ![e].run = Selected,
                                      ![e].st = run[Selected].st]
    /\ UNCHANGED <<ledger, use, lock, dead, mishaps>>

\* Mutant: the run is created whether or not the key has one.
AssignRunBlind(e) ==
    /\ At(e, {"exec"}) /\ lock = ""
    /\ LET k == K(e)
       IN  /\ Act(e) \in Creating
           /\ Act(e) = "message" => call[e].st # "queued"
           /\ IF ~AdmitsWork THEN Goto(e, "failing") /\ UNCHANGED <<run, effects, worker>>
              ELSE /\ run' = [run EXCEPT ![k] = NewRun]
                   /\ effects' = [effects EXCEPT ![k] = @ + 1]
                   /\ worker' = IF worker.st = "paused" /\ Act(e) = "retry"
                                THEN [worker EXCEPT !.st = "starting"] ELSE worker
                   /\ Answer(e, k, "effect", TRUE)
    /\ UNCHANGED <<current, dismissed, claim, lastOp, proven, use, lock, dead, mishaps>>

\* assign_run with the key's run identity (create_idempotent_run), under the lock.
AssignRun(e) ==
    /\ At(e, {"exec"}) /\ lock = ""
    /\ LET k == K(e)
       IN  /\ Act(e) \in Creating
           /\ Act(e) = "message" => call[e].st # "queued"
           /\ IF run[k].st # "none" THEN Answer(e, k, "effect", TRUE) /\ UNCHANGED <<run, effects, worker>>
              ELSE IF ~AdmitsWork THEN Goto(e, "failing") /\ UNCHANGED <<run, effects, worker>>
              ELSE /\ run' = [run EXCEPT ![k] = NewRun]
                   /\ effects' = [effects EXCEPT ![k] = @ + 1]
                   /\ worker' = IF worker.st = "paused" /\ Act(e) = "retry"
                                THEN [worker EXCEPT !.st = "starting"] ELSE worker
                   /\ Answer(e, k, "effect", TRUE)
    /\ UNCHANGED <<current, dismissed, claim, lastOp, proven, use, lock, dead, mishaps>>

\* replace_queued_run_idempotently: a message to a queued run takes its place; if the run
\* started meanwhile the message is queued behind it.
ReplaceQueued(e) ==
    /\ At(e, {"exec"}) /\ lock = ""
    /\ Act(e) = "message" /\ call[e].st = "queued"
    /\ LET k == K(e)
           src == call[e].run
       IN  \/ /\ run[k].st # "none"
              /\ Answer(e, k, "effect", TRUE) /\ UNCHANGED <<run, effects, current>>
           \/ /\ run[k].st = "none" /\ ~AdmitsWork
              /\ Goto(e, "failing") /\ UNCHANGED <<run, effects, current>>
           \/ /\ run[k].st = "none" /\ AdmitsWork
              /\ run[src].st = "queued" /\ current = src
              /\ run' = [run EXCEPT ![k] = NewRun, ![src].st = "cancelled"]
              /\ current' = k
              /\ effects' = [effects EXCEPT ![k] = @ + 1]
              /\ Answer(e, k, "effect", TRUE)
           \/ /\ run[k].st = "none" /\ AdmitsWork
              /\ run[src].st # "queued" \/ current # src
              /\ call' = [call EXCEPT ![e].st = "started"]
              /\ UNCHANGED <<run, effects, current>>
    /\ UNCHANGED <<dismissed, worker, claim, lastOp, proven, use, lock, dead, mishaps>>

\* dismiss_delegation
Dismiss(e) ==
    /\ At(e, {"exec"}) /\ Act(e) = "dismiss"
    /\ dismissed' = TRUE
    /\ effects' = [effects EXCEPT ![K(e)] = 1]
    /\ Answer(e, call[e].run, "effect", FALSE)
    /\ UNCHANGED <<run, current, worker, claim, lastOp, proven, use, lock, dead, mishaps>>

\* resume_needs_input_active_work_action: the run is queued again and the receipt bound to the
\* event in one transaction.  A run that another resume queued again meanwhile is the effect of
\* this receipt if the receipt re-admitted it before.  Whether the provider's attention blocks
\* the run and its compute is still held, which refuses the call, is not modelled.
ResumeNeedsInput(e) ==
    /\ At(e, {"exec"}) /\ Act(e) = "resume" /\ call[e].st = "needs_input"
    /\ LET k == K(e)
           r == call[e].run
           op == IF use[k].op # 0 THEN use[k].op ELSE lastOp + 1
           ours == use[k].st = "pending" /\ use[k].exec = e /\ use[k].source = r
       IN  \/ /\ ours /\ run[r].st = "needs_input" /\ op <= MaxOps
              /\ run' = [run EXCEPT ![r].st = "queued"]
              /\ worker' = [worker EXCEPT !.st = "starting"]
              /\ use' = [use EXCEPT ![k].op = op]
              /\ lastOp' = IF op > lastOp THEN op ELSE lastOp
              /\ proven' = proven \cup {<<op, "readmitted">>}
              /\ effects' = [effects EXCEPT ![k] = @ + 1]
              /\ Answer(e, r, "effect", FALSE)
           \/ /\ ours /\ run[r].st = "queued" /\ Proves(k, "readmitted")
              /\ Answer(e, r, "effect", FALSE)
              /\ UNCHANGED <<run, worker, use, lastOp, proven, effects>>
           \/ /\ Goto(e, "failing")
              /\ UNCHANGED <<run, worker, use, lastOp, proven, effects>>
    /\ UNCHANGED <<current, dismissed, claim, lock, dead, mishaps>>

-----------------------------------------------------------------------------
\* Controls: claim, runtime effect, finalisation

NoOtherExecuting(r) == InState({"running", "paused"}) \subseteq {r}
ClaimableFrom(a) == CASE a = "resume" -> {"paused"} [] a = "stop" -> Controllable
                      [] OTHER -> {"queued", "running"}

\* try_claim_worker_compute_release: no claim is pending, or this very one expired.
CanClaim(a, r, repl) ==
    \/ /\ claim.op = 0 /\ lastOp < MaxOps
       /\ run[r].st \in ClaimableFrom(a) /\ NoOtherExecuting(r)
       /\ worker.stop = 0
    \/ claim.op # 0 /\ claim.expired /\ claim.act = a /\ claim.target = r /\ claim.repl = repl

ClaimOp == IF claim.op = 0 THEN lastOp + 1 ELSE claim.op

\* _bind_active_work_action_lifecycle_in_transaction: once, to one operation.
BindOk(e, k, op) ==
    /\ use[k].st = "pending" /\ use[k].exec = e
    /\ use[k].source = call[e].run
    /\ use[k].op \in {0, op}

Controlling(e) ==
    /\ At(e, {"exec"}) /\ lock = ""
    /\ Act(e) \in Controls
    /\ ~(Act(e) = "resume" /\ call[e].st = "needs_input")
Replacement(e) == IF Act(e) = "steer" THEN K(e) ELSE 0

\* A claim inserts the replacement of a steer, held back by the claim, and the stop tombstone.
TakeClaim(a, r, repl) ==
    /\ claim' = [op |-> ClaimOp, act |-> a, target |-> r, repl |-> repl,
                 from |-> run[r].st, expired |-> FALSE]
    /\ lastOp' = IF claim.op = 0 THEN lastOp + 1 ELSE lastOp
    /\ run' = IF repl # 0 /\ run[repl].st = "none" THEN [run EXCEPT ![repl] = NewRun] ELSE run
    /\ worker' = IF a = "stop" THEN [worker EXCEPT !.st = "stopping", !.stop = ClaimOp,
                                                   !.outcome = ""]
                 ELSE worker

\* pause_worker, resume_worker, steer_worker, stop_run up to the claim, which binds the
\* receipt in its transaction.
ClaimControl(e) ==
    /\ Controlling(e)
    /\ LET k == K(e)
           r == call[e].run
       IN  /\ Act(e) = "steer" => run[k].st = "none" \/ claim.repl = k
           /\ CanClaim(Act(e), r, Replacement(e))
           /\ BindOk(e, k, ClaimOp)
           /\ TakeClaim(Act(e), r, Replacement(e))
           /\ use' = [use EXCEPT ![k].op = ClaimOp]
           /\ lock' = e
           /\ Goto(e, "claimed")
    /\ UNCHANGED <<current, dismissed, proven, dead, mishaps, effects>>

\* The same calls when they get no claim: the state asked for is already there, the stop is
\* the one that is pending, or the generation changed.
ClaimRefused(e) ==
    /\ Controlling(e)
    /\ LET k == K(e)
           r == call[e].run
           have == \/ Act(e) = "pause" /\ run[r].st = "paused"
                   \/ Act(e) = "resume" /\ run[r].st \in {"queued", "running"}
           steered == Act(e) = "steer" /\ run[k].st # "none" /\ claim.repl # k
       IN  \/ have /\ Answer(e, r, "already", FALSE)
           \/ steered /\ Answer(e, k, "effect", TRUE)
           \/ /\ ~have /\ ~steered
              /\ ~(CanClaim(Act(e), r, Replacement(e)) /\ BindOk(e, k, ClaimOp))
              /\ IF StopPending(k) THEN Answer(e, r, "pending", FALSE) ELSE Goto(e, "failing")
    /\ UNCHANGED <<ledger, use, lock, dead, mishaps>>

Bound(op) == {k \in Keys : use[k].op = op}
Counted(op) == effects' = [k \in Keys |-> effects[k] + IF k \in Bound(op) THEN 1 ELSE 0]
Event(op, ev) == proven' = proven \cup {<<op, ev>>}

\* The target ended by itself before the control reached it.
TerminalWon == run[claim.target].st \in
                  IF claim.act = "steer" THEN OverStates \ {"interrupted"} ELSE OverStates

\* finalize_worker_run_control_claim, finalize_worker_steer_claim and
\* finalize_worker_work_stop_claim.
FinalizeClaim ==
    LET t == claim.target
    IN  /\ claim' = NoClaim
        /\ \/ /\ TerminalWon /\ claim.act # "stop"
              /\ run' = IF claim.repl # 0 /\ run[claim.repl].st = "queued"
                        THEN [run EXCEPT ![claim.repl].st = "cancelled"] ELSE run
              /\ current' = IF claim.act = "steer" THEN t ELSE current
              /\ worker' = [worker EXCEPT !.st = "ready"]
              /\ Event(claim.op, "terminal_won") /\ UNCHANGED effects
           \/ /\ claim.act = "stop"
              /\ run' = [r \in Runs |-> IF run[r].st \in Controllable
                                        THEN [run[r] EXCEPT !.st = "cancelled"] ELSE run[r]]
              /\ worker' = [worker EXCEPT !.st = "ready",
                              !.outcome = IF TerminalWon THEN "completion_won" ELSE "cancelled"]
              /\ Event(claim.op, worker'.outcome)
              /\ IF TerminalWon THEN UNCHANGED effects ELSE Counted(claim.op)
              /\ UNCHANGED current
           \/ /\ ~TerminalWon /\ claim.act = "steer"
              /\ LET s == IF run[t].st = "running" THEN "interrupted"
                          ELSE IF run[t].st = "interrupted" THEN "interrupted" ELSE "cancelled"
                 IN  run' = [run EXCEPT ![t].st = s] /\ Event(claim.op, s)
              /\ current' = claim.repl
              /\ worker' = [worker EXCEPT !.st = "starting"]
              /\ Counted(claim.op)
           \/ /\ ~TerminalWon /\ claim.act = "pause"
              /\ run' = [run EXCEPT ![t].st = "paused"]
              /\ worker' = [worker EXCEPT !.st = "paused"]
              /\ Event(claim.op, "paused") /\ Counted(claim.op) /\ UNCHANGED current
           \/ /\ ~TerminalWon /\ claim.act = "resume"
              /\ \E s \in {"queued", "running"} : run' = [run EXCEPT ![t].st = s]
              /\ worker' = [worker EXCEPT !.st = "starting"]
              /\ Event(claim.op, "resumed") /\ Counted(claim.op) /\ UNCHANGED current

\* With a stop the worker's other open receipts fail, and the cancellation of a run that it
\* cancelled is accepted.
ReceiptsFinalized ==
    IF claim.act # "stop" THEN use
    ELSE [k \in Keys |->
            IF use[k].st = "pending" /\ ActionOf[k] # "stop"
            THEN [use[k] EXCEPT !.st = "failed", !.live = FALSE]
            ELSE IF /\ ActionOf[k] = "cancel_run" /\ use[k].st = "executing"
                    /\ run[0].st \in Controllable
            THEN [use[k] EXCEPT !.st = "accepted"] ELSE use[k]]

Finalize(e) ==
    /\ At(e, {"claimed"})
    /\ FinalizeClaim
    /\ lock' = ""
    /\ Answer(e, IF claim.act = "steer" /\ ~TerminalWon THEN claim.repl ELSE claim.target,
              IF TerminalWon THEN "terminal_won" ELSE "effect",
              claim.act = "steer" /\ ~TerminalWon)
    /\ use' = ReceiptsFinalized
    /\ UNCHANGED <<dismissed, lastOp, dead, mishaps>>

\* The runtime did not confirm: the claim stays as a fence.  A stop answers that it is pending.
Unconfirmed(e) ==
    /\ At(e, {"claimed"})
    /\ lock' = ""
    /\ IF Act(e) = "stop" THEN Answer(e, claim.target, "pending", FALSE) ELSE Goto(e, "failing")
    /\ UNCHANGED <<ledger, use, dead, mishaps>>

\* recover_expired_compute_release_claims_once: any process finishes an expired claim; a
\* steer finishes the receipt that is bound to it, if the replacement is the current run.
RecoverClaim ==
    /\ claim.op # 0 /\ claim.expired /\ lock = "" /\ dead # Executors
    /\ FinalizeClaim
    /\ use' = [k \in Keys |->
                 IF /\ k \in Bound(claim.op) /\ claim.act = "steer"
                    /\ use[k].st = "pending" /\ current' = claim.repl
                 THEN [use[k] EXCEPT !.st = "completed", !.resp = "effect"]
                 ELSE ReceiptsFinalized[k]]
    /\ UNCHANGED <<dismissed, lastOp, call, lock, dead, mishaps>>

-----------------------------------------------------------------------------
\* Ending a request

\* finish_active_work_action: only the receipt's owner, and only once.
Finish(e) ==
    /\ At(e, {"answer"})
    /\ LET k == K(e)
           ours == use[k].st = "pending" /\ use[k].exec = e
       IN  /\ use' = IF ours THEN [use EXCEPT ![k].st = "completed", ![k].resp = call[e].res]
                     ELSE use
           /\ current' = IF ours /\ call[e].adv THEN call[e].run ELSE current
    /\ Reply(e)
    /\ UNCHANGED <<run, dismissed, worker, claim, lastOp, proven, effects, lock, dead, mishaps>>

\* fail_active_work_action: a bound receipt stays pending, another one fails, and for good
\* when the error has an answer of its own.
Fail(e) ==
    /\ At(e, {"failing"})
    /\ LET k == K(e)
       IN  \/ /\ use[k].st = "pending" /\ use[k].exec = e /\ use[k].op = 0
              /\ use' = [use EXCEPT ![k].st = "refused"]
           \/ /\ use[k].st # "pending" \/ use[k].exec # e \/ use[k].op # 0
              /\ UNCHANGED use
    /\ Reply(e)
    /\ UNCHANGED <<ledger, lock, dead, mishaps>>

Fault == mishaps < MaxMishaps /\ mishaps' = mishaps + 1

\* An unexpected error in front of the effect: the receipt can be executed again.
Stumble(e) ==
    /\ At(e, {"reserved", "exec"}) /\ Fault
    /\ LET k == K(e)
       IN  use' = IF use[k].st = "pending" /\ use[k].exec = e /\ use[k].op = 0
                  THEN [use EXCEPT ![k].st = "failed"] ELSE use
    /\ Reply(e)
    /\ UNCHANGED <<ledger, lock, dead>>

-----------------------------------------------------------------------------
\* Capability actions on the first run

\* execute_run_action, retry: create_retry_run_action is one transaction; a failed run is
\* retried by one capability at most.
RetryRun(e, k) ==
    /\ At(e, {"idle"}) /\ ActionOf[k] = "retry_run"
    /\ use[k].st = "none" /\ AdmitsWork
    /\ \A q \in Keys : ActionOf[q] = "retry_run" => use[q].st = "none"
    /\ run[0].st = "failed" /\ InState({"queued", "running"}) = {}
    /\ run' = [run EXCEPT ![k] = NewRun]
    /\ use' = [use EXCEPT ![k].st = "completed", ![k].resp = "effect"]
    /\ effects' = [effects EXCEPT ![k] = @ + 1]
    /\ worker' = IF worker.st = "paused" THEN [worker EXCEPT !.st = "starting"] ELSE worker
    /\ UNCHANGED <<current, dismissed, claim, lastOp, proven, call, lock, dead, mishaps>>

\* execute_run_action, cancel: reserve_cancel_run_action.  An execution that is 30 seconds old
\* is taken to be lost.
ReserveCancel(e, k) ==
    /\ At(e, {"idle"}) /\ ActionOf[k] = "cancel_run"
    /\ \/ /\ \/ use[k].st \in {"none", "failed"}
             \/ use[k].st = "executing" /\ ~use[k].live
          /\ run[0].st = "running"
          /\ use' = [use EXCEPT ![k].st = "executing", ![k].live = TRUE]
          /\ call' = [call EXCEPT ![e] = [NoCall EXCEPT !.pc = "cancel", !.key = k]]
       \/ /\ use[k].st \in {"executing", "failed"}
          /\ \/ run[0].st = "completed" /\ use' = [use EXCEPT ![k].st = "conflict"]
             \/ run[0].st \in {"interrupted", "cancelled"}
                /\ use' = [use EXCEPT ![k].st = "accepted"]
          /\ UNCHANGED call
    /\ UNCHANGED <<ledger, lock, dead, mishaps>>

\* stop_run without a receipt to bind.
ClaimCancel(e) ==
    /\ At(e, {"cancel"}) /\ lock = ""
    /\ run[0].st \notin OverStates /\ CanClaim("stop", 0, 0)
    /\ TakeClaim("stop", 0, 0)
    /\ lock' = e /\ Goto(e, "cancelling")
    /\ UNCHANGED <<current, dismissed, proven, use, dead, mishaps, effects>>

\* No claim: another stop is at work, which the caller is told; else the run's state decides.
CancelRefused(e) ==
    /\ At(e, {"cancel"}) /\ lock = ""
    /\ run[0].st \in OverStates \/ ~CanClaim("stop", 0, 0)
    /\ IF run[0].st \notin OverStates /\ claim.act = "stop" /\ claim.target = 0
       THEN Reply(e) ELSE Goto(e, "cancelled")
    /\ UNCHANGED <<ledger, use, lock, dead, mishaps>>

FinishCancel(e) ==
    /\ At(e, {"cancelling"})
    /\ FinalizeClaim
    /\ use' = ReceiptsFinalized
    /\ lock' = "" /\ Goto(e, "cancelled")
    /\ UNCHANGED <<dismissed, lastOp, dead, mishaps>>

\* The process is still there, or its end is not confirmed, which is recorded as a failure.
CancelUnconfirmed(e) ==
    /\ At(e, {"cancelling"})
    /\ lock' = ""
    /\ \E st \in {"executing", "failed"} : use' = [use EXCEPT ![K(e)].st = st]
    /\ Reply(e)
    /\ UNCHANGED <<ledger, dead, mishaps>>

\* update_run_action_result with the run's state after the stop.
SettleCancel(e) ==
    /\ At(e, {"cancelled"})
    /\ use' = [use EXCEPT ![K(e)].st = IF run[0].st = "cancelled" THEN "accepted" ELSE "conflict"]
    /\ Reply(e)
    /\ UNCHANGED <<ledger, lock, dead, mishaps>>

-----------------------------------------------------------------------------
\* Time, deaths and the runs themselves

\* The lease of a receipt, or of a claim, runs out.  Those of a process that lives run out
\* only under a request that takes too long.
OwnerDied(k) == use[k].exec \in dead
ExpireUse(k) ==
    /\ use[k].live
    /\ IF OwnerDied(k) THEN UNCHANGED mishaps ELSE SlowExecutors /\ Fault
    /\ use' = [use EXCEPT ![k].live = FALSE]
    /\ UNCHANGED <<ledger, call, lock, dead>>
ExpireClaim ==
    /\ claim.op # 0 /\ ~claim.expired /\ lock = ""
    /\ claim' = [claim EXCEPT !.expired = TRUE]
    /\ UNCHANGED <<run, current, dismissed, worker, lastOp, proven, use, call, lock, dead, mishaps,
                   effects>>

\* A process dies; a clean exit releases its receipts (release_active_work_action_leases).
Die(e) ==
    /\ Alive(e) /\ dead # Executors \ {e} /\ Fault
    /\ dead' = dead \cup {e}
    /\ call' = [call EXCEPT ![e] = NoCall]
    /\ lock' = IF lock = e THEN "" ELSE lock
    /\ \E clean \in BOOLEAN :
         use' = [k \in Keys |-> IF clean /\ use[k].exec = e THEN [use[k] EXCEPT !.live = FALSE]
                                ELSE use[k]]
    /\ UNCHANGED ledger

\* The run moves on by itself (HostRuns).
RunMoves(r) ==
    /\ \/ /\ run[r].st = "queued" /\ worker.st \in {"ready", "starting"}
          /\ claim.op = 0 /\ InState({"running", "paused"}) = {}
          /\ run' = [run EXCEPT ![r].st = "running"]
          /\ worker' = [worker EXCEPT !.st = "ready"]
       \/ /\ run[r].st = "running"
          /\ \E s \in {"completed", "failed", "needs_input"} : run' = [run EXCEPT ![r].st = s]
          /\ UNCHANGED worker
    /\ UNCHANGED <<current, dismissed, claim, lastOp, proven, use, call, lock, dead, mishaps, effects>>

RequestStep(e) ==
    \/ Reserve(e) \/ FailUnbound(e) \/ Reconcile(e) \/ ReadLive(e)
    \/ AssignRun(e) \/ ReplaceQueued(e) \/ Dismiss(e) \/ ResumeNeedsInput(e)
    \/ ClaimControl(e) \/ ClaimRefused(e) \/ Finalize(e)
    \/ Finish(e) \/ Fail(e)
    \/ ClaimCancel(e) \/ CancelRefused(e) \/ FinishCancel(e) \/ SettleCancel(e)

AwNext ==
    \/ \E e \in Executors : \/ RequestStep(e) \/ Unconfirmed(e) \/ CancelUnconfirmed(e)
                            \/ Stumble(e) \/ Die(e)
                            \/ \E k \in Keys : Begin(e, k) \/ RetryRun(e, k) \/ ReserveCancel(e, k)
    \/ \E k \in Keys : ExpireUse(k)
    \/ ExpireClaim \/ RecoverClaim
    \/ \E r \in Runs : RunMoves(r)

AwSpec == AwInit /\ [][AwNext /\ UNCHANGED ActionOf]_awVars

-----------------------------------------------------------------------------
\* Properties

\* However often a request is repeated, whatever processes die and take its receipt over, its
\* action takes effect at most once: the run identity derives from the key and a receipt is
\* bound to one lifecycle operation.
EffectOnce == \A k \in Keys : ActionOf[k] # "resume" => effects[k] <= 1

\* The same for a resume.  It does not hold for a run that waits for input: the transaction
\* finds its own operation in the receipt and re-admits the run again.
ResumesOnce == \A k \in Keys : ActionOf[k] = "resume" => effects[k] <= 1

\* A stored answer tells the truth: an action that "took effect" did (a dismissal that was taken
\* over may have been another key's), and one that the end of the run overtook did nothing; the
\* replacement of such a steer never executes.
TookEffect(k) == effects[k] >= 1 \/ (ActionOf[k] = "dismiss" /\ dismissed)
AnswersAreTrue ==
    \A k \in Keys :
       /\ use[k].resp = "effect" => TookEffect(k)
       /\ use[k].resp = "terminal_won" =>
             /\ effects[k] = 0
             /\ ActionOf[k] = "steer" => run[k].st = "cancelled"

\* The action of an idempotency key takes effect at most once, whichever processes serve, lose
\* or take over its receipt, and what a receipt answers is true of the ledger
\* (reserve_active_work_action, reconcile_active_work_action).
WorkOnceAndTrue == EffectOnce /\ AnswersAreTrue

\* Once a stop settled nothing of the worker is left to do, whichever request was under way.
WorkStoppedIsEmpty == worker.outcome # "" => InState(Controllable) = {}

\* An action that was refused for good had no effect and never gets one.  Holds if a request
\* ends within its lease (SlowExecutors = FALSE); else the process that lost the receipt may
\* still create the run after its successor refused it.
RefusedIsInert == \A k \in Keys : use[k].st = "refused" => effects[k] = 0

\* A capability is told "conflict" only about a run that is over.  Does not hold: a cancel
\* that finds another control's claim is recorded as a conflict for good.
ConflictIsTrue == \A k \in Keys : use[k].st = "conflict" => run[0].st \in OverStates

\* Work in progress is listed.  Does not hold: an action on a dismissed delegation leaves it
\* dismissed.
ActiveIsListed == InState({"queued", "running"}) # {} => ~dismissed

=============================================================================
