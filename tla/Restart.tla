------------------------------- MODULE Restart -------------------------------
(* One clean-room docker mission across deaths, managed shutdowns and restarts of the
   service.  Every attempt starts one generation: a screen session in the
   worker's container, which outlives the service.  A generation leaves its exit
   marker and its transcript in a directory of its own attempt; the durable
   active-session record names the generation started last.  Each attempt also
   holds a capability grant of the broker, and a durable revocation row that is
   armed with it.

   A service process is one incarnation.  Its memory (the registered processor
   or survivor monitor, the leases claimed by the shutdown, the retained run and
   the stop reasons) is lost when it dies.  Lifecycle claims, and a death between
   the start of a session and its confirmation, are those of RunControl and
   RunDispatch and are left out here.                                         *)
EXTENDS Naturals, FiniteSets

CONSTANTS Adoptions,    \* values of WPR_RESTART_SURVIVOR_ADOPTION, a set of Booleans
          MaxAttempts,  \* bound on attempts of the run
          MaxRestarts,  \* bound on restarts of the service
          MaxFaults     \* bound on stops that fail, containers that vanish, timeouts

ASSUME RsBounds ==
    /\ Adoptions \subseteq BOOLEAN
    /\ MaxAttempts \in Nat /\ MaxRestarts \in Nat /\ MaxFaults \in Nat

VARIABLES adopt,   \* is the adoption of survivors enabled?
          run,     \* the run: state, active attempt (0: none) and attempts so far
          lease,   \* its newest host run lease
          alive,   \* attempts whose generation is alive
          marker,  \* terminal evidence of each attempt
          record,  \* attempt named by the active-session record, 0 if none
          box,     \* is the worker's container present?
          grant,   \* the broker's grant of each attempt
          rev,     \* the revocation row of each attempt
          svc,     \* the incarnation and its phase
          proc,    \* the registered processor or monitor
          memo,    \* memory of the shutdown
          faults,  \* faults so far
          result,  \* history: the attempt whose evidence settled the run
          old      \* history: attempts that had left evidence when the last one was admitted

durable == <<adopt, run, lease, result, old>>
native == <<alive, marker, record, box>>
broker == <<grant, rev>>
memory == <<svc, proc, memo>>
rsVars == <<adopt, run, lease, alive, marker, record, box, grant, rev, svc, proc, memo,
           faults, result, old>>

Attempts == 1 .. MaxAttempts
Settled == {"completed", "failed", "interrupted"}
Open == {"claimed", "admitted", "running"}  \* states of get_active_run
NoMemo == [claimed |-> 0, detached |-> FALSE, retained |-> FALSE]
Idle == [pc |-> "idle", att |-> 0, res |-> "none"]

RsTypeOK ==
    /\ adopt \in BOOLEAN
    /\ run \in [st : {"queued"} \cup Open \cup Settled, att : 0 .. MaxAttempts,
                n : 0 .. MaxAttempts]
    /\ lease \in [st : {"none", "active", "released"}, att : 0 .. MaxAttempts,
                  by : 0 .. MaxRestarts + 1, start : {"reserved", "confirmed", "unconfirmed"},
                  live : BOOLEAN, why : {"none", "managed", "other"}]
    /\ alive \subseteq Attempts
    /\ marker \in [Attempts -> {"none", "answer", "done", "crashed", "killed"}]
    /\ record \in 0 .. MaxAttempts /\ box \in BOOLEAN
    /\ grant \in [Attempts -> {"none", "live", "revoked"}]
    /\ rev \in [Attempts -> {"none", "armed", "pending", "applied"}]
    /\ svc \in [n : 1 .. MaxRestarts + 1,
                up : {"down", "leases", "rows", "probe", "up", "release", "retain", "stop",
                      "unlock", "join"}]
    /\ proc \in [pc : {"idle", "grant", "arm", "admit", "invoke", "launch", "wait", "settle", "monitor",
                       "requeue"},
                 att : 0 .. MaxAttempts, res : {"none"} \cup Settled]
    /\ memo \in [claimed : 0 .. MaxAttempts, detached : BOOLEAN, retained : BOOLEAN]
    /\ faults \in 0 .. MaxFaults /\ result \in 0 .. MaxAttempts /\ old \subseteq Attempts

RsInit ==
    /\ adopt \in Adoptions
    /\ run = [st |-> "queued", att |-> 0, n |-> 0]
    /\ lease = [st |-> "none", att |-> 0, by |-> 0, start |-> "reserved", live |-> FALSE,
                why |-> "none"]
    /\ alive = {} /\ marker = [a \in Attempts |-> "none"] /\ record = 0 /\ box = FALSE
    /\ grant = [a \in Attempts |-> "none"] /\ rev = [a \in Attempts |-> "none"]
    /\ svc = [n |-> 1, up |-> "up"] /\ proc = Idle /\ memo = NoMemo
    /\ faults = 0 /\ result = 0 /\ old = {}

-----------------------------------------------------------------------------
\* What the components read and write

Fault == faults < MaxFaults /\ faults' = faults + 1
Serving == svc.up \in {"up", "release", "retain", "stop", "unlock", "join"}
Down(phase) == svc' = [svc EXCEPT !.up = phase]

\* A stop of the generations in S: TERM makes the wrapper write its exit marker.
Kill(S) ==
    /\ alive' = alive \ S
    /\ marker' = [a \in Attempts |->
                  IF a \in S \cap alive /\ marker[a] = "none" THEN "killed" ELSE marker[a]]

\* _running_generation_is_exact_conn, for a running run
Exact == lease.st = "active" /\ lease.att = run.att /\ lease.live

\* host_process_identity: the recorded session is alive; the attempt is not compared.
Verified == record \in alive

\* _downgrade_unproven_running_conn
Downgrade ==
    /\ run' = [run EXCEPT !.st = "queued", !.att = 0]
    /\ lease' = IF lease.st = "active" THEN [lease EXCEPT !.st = "released", !.why = "other"]
                ELSE lease

\* reconcile_invalid_running_runs, by itself and as a part of other steps
RepairRunning ==
    IF run.st = "running" /\ ~Exact THEN Downgrade ELSE UNCHANGED <<run, lease>>

\* The terminal transition of the run: the lease of its attempt ends with it.
Terminal(st, a) ==
    /\ run' = [run EXCEPT !.st = st]
    /\ lease' = IF lease.st = "active" /\ lease.att = run.att
                THEN [lease EXCEPT !.st = "released", !.why = "other"] ELSE lease
    /\ result' = a

Requeue == run' = [run EXCEPT !.st = "queued", !.att = 0]

-----------------------------------------------------------------------------
\* Collecting the result of a generation that nobody waited for

\* Mutant of Source: the evidence of the recorded session counts for every attempt of the run.
AnyAttempt == record

\* _latest_completed_run_payload: a run without an active attempt is collected by its id.
Source == IF run.att # 0 THEN run.att ELSE record

Outcome(e) == IF e = "done" THEN "completed" ELSE "failed"

\* _recovered_run_lease_is_active: no attempt, nothing to compare
LeaseStillActive == run.att = 0 \/ (lease.st = "active" /\ lease.att = run.att)

HasEvidence == Source # 0 /\ marker[Source] # "none"

\* collect_completed_run, then _apply_recovered_run.  A complete response without an
\* exit marker counts once the process is stopped.
Collect ==
    /\ HasEvidence
    /\ LET a == Source
       IN  IF marker[a] = "answer"
           THEN /\ alive' = alive \ {a} /\ marker' = [marker EXCEPT ![a] = "done"]
                /\ IF LeaseStillActive THEN Terminal("completed", a)
                   ELSE UNCHANGED <<run, lease, result>>
           ELSE /\ UNCHANGED <<alive, marker>>
                /\ IF LeaseStillActive THEN Terminal(Outcome(marker[a]), a)
                   ELSE UNCHANGED <<run, lease, result>>
    /\ UNCHANGED <<adopt, old, record, box, broker, faults>>

\* The process of a complete response cannot be stopped: nothing is collected.
CollectFails == HasEvidence /\ marker[Source] = "answer" /\ Source \in alive

-----------------------------------------------------------------------------
\* The processor of an attempt

\* The scheduler claims the run and reserves its start.
Claim ==
    /\ svc.up = "up" /\ proc = Idle
    /\ run.st = "queued" /\ lease.st # "active" /\ run.n < MaxAttempts
    /\ LET a == run.n + 1
       IN  /\ run' = [st |-> "claimed", att |-> a, n |-> a]
           /\ lease' = [st |-> "active", att |-> a, by |-> svc.n, start |-> "reserved",
                        live |-> TRUE, why |-> "none"]
           /\ proc' = [pc |-> "grant", att |-> a, res |-> "none"]
    /\ old' = {a \in Attempts : marker[a] # "none"}
    /\ UNCHANGED <<adopt, native, broker, svc, memo, faults, result>>

\* prepare and admit at the broker
AdmitGrant ==
    /\ proc.pc = "grant"
    /\ grant' = [grant EXCEPT ![proc.att] = "live"]
    /\ proc' = [proc EXCEPT !.pc = "arm"]
    /\ UNCHANGED <<durable, native, rev, svc, memo, faults>>

\* The durable revocation is written armed, before the grant is used.
ArmRevocation ==
    /\ proc.pc = "arm"
    /\ rev' = [rev EXCEPT ![proc.att] = "armed"]
    /\ proc' = [proc EXCEPT !.pc = "admit"]
    /\ UNCHANGED <<durable, native, grant, svc, memo, faults>>

ReleaseOwn == lease' = IF lease.st = "active" /\ lease.att = proc.att
                       THEN [lease EXCEPT !.st = "released", !.why = "other"] ELSE lease

\* The broker's preflight does not match: the revocation is activated at once.
PreflightFails ==
    /\ proc.pc = "arm" /\ Fault
    /\ rev' = [rev EXCEPT ![proc.att] = "pending"]
    /\ ReleaseOwn
    /\ proc' = [proc EXCEPT !.pc = "settle", !.res = "failed"]
    /\ UNCHANGED <<adopt, old, run, result, native, grant, svc, memo>>

\* admit_claimed_run
AdmitRun ==
    /\ proc.pc = "admit"
    /\ IF run.st = "claimed" /\ run.att = proc.att /\ Exact
       THEN run' = [run EXCEPT !.st = "admitted"] /\ proc' = [proc EXCEPT !.pc = "invoke"]
       ELSE proc' = [proc EXCEPT !.pc = "settle", !.res = "failed"] /\ UNCHANGED run
    /\ UNCHANGED <<adopt, old, lease, result, native, broker, svc, memo, faults>>

\* validate_host_run_start_reservation and mark_run_runtime_invoked
Invoke ==
    /\ proc.pc = "invoke"
    /\ IF run.st = "admitted" /\ run.att = proc.att /\ Exact
       THEN run' = [run EXCEPT !.st = "running"] /\ proc' = [proc EXCEPT !.pc = "launch"]
            /\ UNCHANGED lease
       ELSE ReleaseOwn /\ proc' = Idle /\ UNCHANGED run
    /\ UNCHANGED <<adopt, old, native, broker, svc, memo, faults, result>>

\* Mutant of Replaced: only the recorded session is stopped, if it belongs to this attempt.
OwnOnly(a) == {a} \cap alive

\* _stop_active_process before a start: the record, or the session's name, finds the
\* generation of an earlier attempt of the run.
Replaced(a) == alive

Startable == run.st = "running" /\ run.att = proc.att /\ Exact

\* run_task up to the confirmed start: stop, start the session, write the record, confirm
StartSession ==
    /\ proc.pc = "launch" /\ Startable
    /\ LET a == proc.att
       IN  /\ alive' = (alive \ Replaced(a)) \cup {a}
           /\ marker' = [b \in Attempts |-> IF b \in Replaced(a) /\ marker[b] = "none" THEN "killed"
                                          ELSE marker[b]]
           /\ record' = a
    /\ box' = TRUE
    /\ lease' = [lease EXCEPT !.start = "confirmed"]
    /\ proc' = [proc EXCEPT !.pc = "wait"]
    /\ UNCHANGED <<adopt, old, run, result, broker, svc, memo, faults>>

\* The start observer refuses: the new session is stopped again and the run retried.
StartRejected ==
    /\ proc.pc = "launch" /\ ~Startable
    /\ Kill(alive) /\ record' = 0 /\ box' = TRUE
    /\ IF run.st = "running" /\ run.att = proc.att THEN Downgrade ELSE UNCHANGED <<run, lease>>
    /\ rev' = [rev EXCEPT ![proc.att] = "pending"]
    /\ proc' = Idle
    /\ UNCHANGED <<adopt, old, result, grant, svc, memo, faults>>

\* If the old session cannot be stopped, nothing starts.
StopRefused ==
    /\ proc.pc = "launch" /\ alive # {} /\ Fault
    /\ proc' = [proc EXCEPT !.pc = "settle", !.res = "failed"]
    /\ rev' = [rev EXCEPT ![proc.att] = "pending"]
    /\ UNCHANGED <<durable, native, grant, svc, memo>>

-----------------------------------------------------------------------------
\* The generation itself

GenerationAnswers(a) ==
    /\ a \in alive /\ marker[a] = "none"
    /\ marker' = [marker EXCEPT ![a] = "answer"]
    /\ UNCHANGED <<durable, alive, record, box, broker, memory, faults>>

GenerationExits(a) ==
    /\ a \in alive
    /\ alive' = alive \ {a}
    /\ \E e \in {"done", "crashed"} :
         /\ marker[a] = "answer" => e = "done"
         /\ marker' = [marker EXCEPT ![a] = e]
    /\ UNCHANGED <<durable, record, box, broker, memory, faults>>

ContainerVanishes ==
    /\ box /\ Fault
    /\ alive' = {} /\ box' = FALSE
    /\ UNCHANGED <<durable, marker, record, broker, memory>>

-----------------------------------------------------------------------------
\* Waiting for the exit and settling the run

\* The processor's finally clause: the grant of a retained run is kept.
GiveBack(a) == rev' = IF memo.retained THEN rev ELSE [rev EXCEPT ![a] = "pending"]

\* _wait_for_exit_code: the marker, a detached wait, the grace after a complete
\* response, and the deadline, in this order.
WaitEnds ==
    /\ proc.pc = "wait"
    /\ LET a == proc.att
       IN  /\ \/ /\ marker[a] \in {"done", "crashed", "killed"}
                 /\ proc' = [proc EXCEPT !.pc = "settle", !.res = Outcome(marker[a])]
                 /\ UNCHANGED <<alive, marker, faults>>
              \/ /\ marker[a] \in {"none", "answer"} /\ memo.detached
                 /\ proc' = [proc EXCEPT !.pc = "settle", !.res = "interrupted"]
                 /\ UNCHANGED <<alive, marker, faults>>
              \/ /\ marker[a] = "answer" /\ ~memo.detached
                 /\ alive' = alive \ {a} /\ marker' = [marker EXCEPT ![a] = "done"]
                 /\ proc' = [proc EXCEPT !.pc = "settle", !.res = "completed"]
                 /\ UNCHANGED faults
              \/ /\ marker[a] = "none" /\ ~memo.detached
                 /\ IF a \in alive THEN Fault ELSE UNCHANGED faults
                 /\ Kill({a})
                 /\ proc' = [proc EXCEPT !.pc = "settle", !.res = "failed"]
           /\ GiveBack(a)
    /\ UNCHANGED <<durable, record, box, grant, svc, memo>>

\* Mutant of HandedOver: any lease of the attempt counts, released or not.
HandedOverByLease(a) == memo.retained \/ memo.claimed = a \/ lease.att = a

\* _released_for_managed_shutdown
HandedOver(a) ==
    \/ memo.retained
    \/ memo.claimed = a
    \/ lease.att = a /\ lease.st = "released" /\ lease.why = "managed"

\* A result is final; an error is dropped when the shutdown owns the generation.
Settle ==
    /\ proc.pc = "settle"
    /\ LET a == proc.att
       IN  IF /\ run.st \in Open /\ run.att = a
              /\ proc.res = "completed" \/ ~HandedOver(a)
           THEN Terminal(proc.res, a)
           ELSE UNCHANGED <<run, lease, result>>
    /\ proc' = Idle
    /\ UNCHANGED <<adopt, old, native, broker, svc, memo, faults>>

-----------------------------------------------------------------------------
\* The monitor of a survivor

\* _release_reconciled_run_lease, for a run that the collection did not settle
ReleasedAnyway == lease' = IF lease.st = "active" THEN [lease EXCEPT !.st = "released", !.why = "other"]
                           ELSE lease

MonitorCollects ==
    /\ proc.pc = "monitor" /\ svc.up = "up" /\ run.st \notin Settled
    /\ Collect
    /\ proc' = Idle /\ UNCHANGED <<svc, memo>>

\* The run is settled, or the service shuts down.
MonitorEnds ==
    /\ proc.pc = "monitor"
    /\ \/ svc.up # "up" /\ UNCHANGED lease
       \/ svc.up = "up" /\ run.st \in Settled /\ ReleasedAnyway
    /\ proc' = Idle
    /\ UNCHANGED <<adopt, old, run, result, native, broker, svc, memo, faults>>

\* No evidence and no process: the lease ends first, the run is requeued after it.
MonitorFindsGone ==
    /\ proc.pc = "monitor" /\ svc.up = "up" /\ run.st \notin Settled
    /\ ~HasEvidence /\ ~Verified
    /\ ReleasedAnyway
    /\ proc' = [proc EXCEPT !.pc = "requeue", !.att = run.att]
    /\ UNCHANGED <<adopt, old, run, result, native, broker, svc, memo, faults>>

\* requeue_run_for_retry compares the attempt that the monitor read.
MonitorRequeues ==
    /\ proc.pc = "requeue"
    /\ IF run.att = proc.att /\ run.st = "running" THEN Requeue ELSE UNCHANGED run
    /\ proc' = Idle
    /\ UNCHANGED <<adopt, old, lease, result, native, broker, svc, memo, faults>>

-----------------------------------------------------------------------------
\* Managed shutdown

\* cleanup_unconfirmed_run_start: stops exactly the session that the lease recorded
CleanUp(a) == Kill({a})

BeginShutdown ==
    /\ svc.up = "up" /\ svc.n <= MaxRestarts
    /\ Down("release")
    /\ UNCHANGED <<durable, native, broker, proc, memo, faults>>

\* A running run under a lease of this incarnation
Owned == lease.st = "active" /\ lease.by = svc.n /\ run.st = "running" /\ run.att = lease.att

\* _retain_live_generation_for_restart up to the detached wait
MayRetain == adopt /\ Owned /\ lease.start = "confirmed" /\ proc # Idle /\ Verified
             /\ record = lease.att

RetainGeneration ==
    /\ svc.up = "release" /\ MayRetain
    /\ lease' = [lease EXCEPT !.live = TRUE]
    /\ memo' = [memo EXCEPT !.detached = TRUE]
    /\ Down("retain")
    /\ UNCHANGED <<adopt, old, run, result, native, broker, proc, faults>>

NoteRetained ==
    /\ svc.up = "retain"
    /\ memo' = [memo EXCEPT !.retained = TRUE]
    /\ Down("join")
    /\ UNCHANGED <<durable, native, broker, proc, faults>>

ClaimLease ==
    /\ svc.up = "release" /\ ~MayRetain
    /\ IF Owned THEN memo' = [memo EXCEPT !.claimed = lease.att] /\ Down("stop")
       ELSE Down("join") /\ UNCHANGED memo
    /\ UNCHANGED <<durable, native, broker, proc, faults>>

\* _stale_lease_generation_proven_absent once the stop was tried: the recorded
\* generation is gone, or, where the lease recorded none, the container is.
AbsenceProven(a) == IF lease.start = "confirmed" THEN a \notin alive' ELSE ~box

\* _stop_managed_shutdown_generation, of the lease the shutdown claimed
StopGeneration ==
    /\ svc.up = "stop"
    /\ \/ CleanUp(memo.claimed) /\ UNCHANGED faults
       \/ memo.claimed \in alive /\ Fault /\ UNCHANGED <<alive, marker>>
    /\ Down(IF AbsenceProven(memo.claimed) THEN "unlock" ELSE "join")
    /\ UNCHANGED <<durable, record, box, broker, proc, memo>>

ReleaseLease ==
    /\ svc.up = "unlock"
    /\ lease' = IF lease.st = "active" /\ lease.att = memo.claimed /\ lease.by = svc.n
                THEN [lease EXCEPT !.st = "released", !.why = "managed"] ELSE lease
    /\ Down("join")
    /\ UNCHANGED <<adopt, old, run, result, native, broker, proc, memo, faults>>

\* The executors are joined: the process ends when its processor has returned.
Exit ==
    /\ svc.up = "join" /\ proc = Idle
    /\ Down("down") /\ memo' = NoMemo
    /\ UNCHANGED <<durable, native, broker, proc, faults>>

Crash ==
    /\ svc.up # "down" /\ svc.n <= MaxRestarts
    /\ Down("down") /\ proc' = Idle /\ memo' = NoMemo
    /\ UNCHANGED <<durable, native, broker, faults>>

\* Heartbeats come from the incarnation that holds the lease, while it serves.
LeaseExpires ==
    /\ lease.st = "active" /\ lease.live
    /\ ~(svc.up = "up" /\ lease.by = svc.n)
    /\ lease' = [lease EXCEPT !.live = FALSE]
    /\ UNCHANGED <<adopt, old, run, result, native, broker, memory, faults>>

-----------------------------------------------------------------------------
\* Startup and the periodic repairs

\* The store's constructor repairs running runs before the service looks at their leases.
Boot ==
    /\ svc.up = "down" /\ svc.n <= MaxRestarts
    /\ svc' = [n |-> svc.n + 1, up |-> "leases"]
    /\ RepairRunning
    /\ UNCHANGED <<adopt, old, result, native, broker, proc, memo, faults>>

\* reconcile_host_run_leases for an expired lease whose run is open.  A verified identity
\* revives the lease only when survivors are adopted and it is the recorded one.
StaleConfirmed ==
    /\ lease.start = "confirmed"
    /\ \/ /\ Verified
          /\ lease' = IF adopt /\ record = lease.att THEN [lease EXCEPT !.live = TRUE] ELSE lease
          /\ UNCHANGED <<adopt, old, run, result, native, broker, faults>>
       \/ /\ ~Verified /\ adopt /\ run.st = "running" /\ Collect
       \/ /\ ~Verified /\ ~(adopt /\ run.st = "running" /\ HasEvidence)
          /\ CleanUp(lease.att)
          /\ IF run.st = "running" /\ run.att = lease.att THEN Downgrade
             ELSE ReleasedAnyway /\ UNCHANGED run
          /\ UNCHANGED <<adopt, old, result, record, box, broker, faults>>

\* A claim that was never admitted is requeued; any other reservation without a captured
\* identity stays fenced until the container is gone.
StaleReserved ==
    /\ lease.start = "reserved"
    /\ IF run.st = "claimed"
       THEN Requeue /\ lease' = [lease EXCEPT !.st = "released", !.why = "other"]
       ELSE lease' = [lease EXCEPT !.start = "unconfirmed"] /\ UNCHANGED run
    /\ UNCHANGED <<adopt, old, result, native, broker, faults>>

StaleUnconfirmed ==
    /\ lease.start = "unconfirmed" /\ ~box
    /\ Requeue
    /\ lease' = [lease EXCEPT !.st = "released", !.why = "other"]
    /\ UNCHANGED <<adopt, old, result, native, broker, faults>>

Stale ==
    /\ lease.st = "active" /\ ~lease.live /\ run.st \notin Settled
    /\ lease.start = "unconfirmed" => ~box

StaleLease ==
    /\ Stale
    /\ StaleConfirmed \/ StaleReserved \/ StaleUnconfirmed

\* The synchronous part of the startup
RecoverLeases ==
    /\ svc.up = "leases"
    /\ Down("rows")
    /\ StaleLease \/ (~Stale /\ UNCHANGED <<durable, native, broker, faults>>)
    /\ UNCHANGED <<proc, memo>>

\* The heartbeat thread repeats it.
HeartbeatStale ==
    /\ svc.up = "up" /\ StaleLease
    /\ UNCHANGED <<svc, proc, memo>>

\* reconcile_invalid_running_runs by the API's readers
RepairInvalid ==
    /\ svc.up = "up" /\ run.st = "running" /\ ~Exact
    /\ RepairRunning
    /\ UNCHANGED <<adopt, old, result, native, broker, memory, faults>>

\* _reconcile_worker_row: first the evidence, then the process
ReconcileRow ==
    /\ svc.up = "rows"
    /\ IF run.st \in Open
       THEN \/ Collect /\ Down("up")
            \/ /\ ~HasEvidence \/ CollectFails
               /\ IF CollectFails THEN Fault ELSE UNCHANGED faults
               /\ Down("probe") /\ UNCHANGED <<durable, native, broker>>
       ELSE Down("up") /\ UNCHANGED <<durable, native, broker, faults>>
    /\ UNCHANGED <<proc, memo>>

ProbeRow ==
    /\ svc.up = "probe"
    /\ Down("up")
    /\ IF run.st \notin Open THEN UNCHANGED <<run, lease, result, proc>>
       ELSE IF Verified
       THEN /\ proc' = IF run.st = "running" THEN [pc |-> "monitor", att |-> run.att, res |-> "none"]
                       ELSE proc
            /\ UNCHANGED <<run, lease, result>>
       ELSE Terminal("interrupted", 0) /\ UNCHANGED proc
    /\ UNCHANGED <<adopt, old, native, broker, memo, faults>>

\* heal_worker, on a read of the worker: it does not ask for a local processor.
Heal ==
    /\ Serving /\ run.st \in Open
    /\ Collect
    /\ UNCHANGED memory

-----------------------------------------------------------------------------
\* Revocation of the grants

\* Mutant of Due: rows are activated by their own processor only.
NeverDue(a) == FALSE

\* activate_due: the run of an armed row has no active lease.
Due(a) == rev[a] = "armed" /\ lease.st # "active"

\* _replay_capability_grant_revocations; the answer of the broker may be lost
Revoke(a) ==
    /\ svc.up = "up"
    /\ rev[a] = "pending" \/ Due(a)
    /\ grant' = [grant EXCEPT ![a] = "revoked"]
    /\ \/ rev' = [rev EXCEPT ![a] = "applied"] /\ UNCHANGED faults
       \/ rev' = [rev EXCEPT ![a] = "pending"] /\ Fault
    /\ UNCHANGED <<durable, native, memory>>

-----------------------------------------------------------------------------

Processor ==
    \/ Claim \/ AdmitGrant \/ ArmRevocation \/ PreflightFails \/ AdmitRun \/ Invoke
    \/ StartSession \/ StartRejected \/ StopRefused \/ WaitEnds \/ Settle
Monitor == MonitorCollects \/ MonitorEnds \/ MonitorFindsGone \/ MonitorRequeues
Shutdown == RetainGeneration \/ NoteRetained \/ ClaimLease \/ StopGeneration \/ ReleaseLease \/ Exit
Startup == Boot \/ RecoverLeases \/ ReconcileRow \/ ProbeRow

RsNext ==
    \/ Processor \/ Monitor \/ Shutdown \/ Startup
    \/ \E a \in Attempts : GenerationAnswers(a) \/ GenerationExits(a) \/ Revoke(a)
    \/ ContainerVanishes \/ BeginShutdown \/ Crash \/ LeaseExpires
    \/ HeartbeatStale \/ RepairInvalid \/ Heal

\* A launcher restarts the service; its threads and the generations make progress (a run
\* timeout is configured, so a wait ends even if the container vanished), and the lease of a
\* dead incarnation expires.  Shutdowns, deaths and reads are free.
RsFairness ==
    /\ WF_rsVars(Processor) /\ WF_rsVars(Monitor) /\ WF_rsVars(Shutdown) /\ WF_rsVars(Startup)
    /\ WF_rsVars(LeaseExpires) /\ WF_rsVars(HeartbeatStale)
    /\ \A a \in Attempts : WF_rsVars(GenerationExits(a)) /\ WF_rsVars(Revoke(a) /\ rev'[a] = "applied")

RsSpec == RsInit /\ [][RsNext]_rsVars
FairRsSpec == RsSpec /\ RsFairness

-----------------------------------------------------------------------------
\* Properties

(* One generation at a time works on the run, whatever the service forgot: a retry after a
   restart stops the session that an earlier attempt left behind before it starts its own. *)
OneGeneration == Cardinality(alive) <= 1

(* A retry is never settled by evidence that was there before it was admitted: startup, the
   monitor and a read of the worker collect the exit marker of the active attempt only. *)
ResultIsFresh == result # 0 /\ run.att # 0 => result \notin old

\* An open run whose start was never confirmed and that nobody works on any more
Stranded == svc.up = "up" /\ proc = Idle /\ run.st \in Open /\ lease.start # "confirmed"

(* The run settles and stays settled, through any shutdowns, deaths and failing stops; the only
   other end is a start that was never confirmed and waits for the next restart. *)
RunSettles == <>[](run.st \in Settled \/ Stranded)

(* Every armed revocation is applied at the broker in the end, whichever process armed it. *)
ArmedIsApplied == \A a \in Attempts : rev[a] = "armed" ~> (rev[a] = "applied" \/ Stranded)
=============================================================================
