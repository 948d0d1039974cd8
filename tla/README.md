# GlassHive: a verification of its control plane

GlassHive runs long-lived agent work ("runs") in workspaces ("workers"). Its control plane is a
FastAPI service over one SQLite database; several service processes, their thread pools, reapers and
API handlers read and write the same rows while external processes and containers do the work. This
directory holds TLA+ models of that core, TLC configurations and TLAPS proofs. All source paths below
are relative to `src/runtime_phase1/src/workers_projects_runtime/`.

## 1. The system

| Part | State | Operations | Hard behaviour |
| --- | --- | --- | --- |
| Run ledger (`store.py`) | `runs`, `run_attempts`, `host_run_leases`, `workers.state` | about 35 transactions: create, reserve, claim, admit, invoke, confirm, heartbeat, requeue, settle, finalize, expire, cancel, reconcile, close | every caller acts on rows it read earlier; leases expire; processes die; a run has many attempts |
| Lifecycle claims (`store.py`, `service.py`) | `workers.compute_release_*`, `work_stop_id` | claim, take over, confirm the runtime effect, finalize, abandon; twelve kinds from pause to terminate | the owner dies between claim and finalization; the target ends by itself; compute is torn down |
| Queue processors (`service.py`) | `_active_processors`, `_processor_generations`, `_pending_run_starts`, the worker's flock, local variables of the thread | peek, reserve, claim, admit, invoke, run, clean up in two nested `finally` blocks | a processor that was replaced unwinds late |
| Host-native processes (`profile_runtime.py`, `service.py`) | the durable supervisor and its files, `active_session.json`, `host_control_receipt.json`, the handle, the slot and the stop reasons in memory | launch, handshake, publish, confirm, permit, stop by identity, finalize, reconcile stale leases | the file, the handle and the slot are released by whoever comes first, in either of two service processes |
| Docker missions and restarts (`service.py`, `profile_runtime.py`) | sessions, exit markers, transcripts, leases, retained runs, survivor monitors, capability grants | start, wait, collect, shut down, start up, adopt, retry, revoke | old evidence on disk, work that survives its service |
| Clean-room containers (`docker_sandbox.py`) | containers by name and generation, networks, authority files | ensure ready, project and clear authority, release, upgrade | docker is asked by name between the commands of others |
| Host capacity (`store.py`, `service.py`) | `host_run_leases`, `preflight_capacity_reservations`, the cached resource measurement | measure, preflight, reserve, acquire, heartbeat, reconcile, adopt | three transactions count different leases; measurements are stale when they are used |
| Provider route health (`store.py`, `service.py`) | `provider_route_health`, the run's route and wait | record a failure, look, delete, switch, wait for a reset, stall | evidence of one attempt is recorded twice and late |
| Callback outbox (`store.py`, `service.py`) | `callback_outbox`, `terminal_callback_reconciliations`, `terminal_callback_results`, `runs.terminal_result_revision` | emit, reconcile, claim, post, record, reclaim, recover a dead letter | requests and answers get lost; results are amended while they are delivered; a sender outlives its lease |
| Queue truth (`store.py`, `service.py`) | the wait generation, its deadline, transition and refresh of a run | announce, refresh, time out | passes compose from rows they read earlier |
| Schedules (`store.py`, `service.py`, `recurrence.py`) | `recurring_schedule_definitions`, `recurring_schedule_occurrences`, `scheduled_runs`, `schedule_principal_authority` | create, update, retire, run now, materialise, claim, recover, dispatch, enable and disable, close | a pass holds snapshots over eight transactions; the process dies between two of them; what a run does reaches its schedule in the same transaction, in a later one or never |
| Intake (`store.py`, `service.py`) | `delegations`, aliases, quota | delegate, find or resume by alias, announce, wake | a repeated request meets its first one in the middle |
| Active work (`api.py`, `service.py`, `store.py`) | `active_work_action_uses`, `run_action_uses`, the stop tombstone | steer, pause, resume, stop, retry, cancel, dismiss, each with a receipt | a slow executor and its successor; a crash between effect and receipt |
| Provider requests (`conversation_provider.py`, `store.py`) | `provider_requests`, `provider_stop_tombstones`, the accepted turns of a session, two in-memory locks | start, attach, reopen, synchronise, fall back, stop, reconcile after a restart | the fallback starts outside the locks; a Stop races synchronisations |
| Provider accounts (`provider_accounts.py`, `mission_provider_accounts.py`) | the account, its lease, its home and who mounts it | log in, verify, bind a mission, fall back, quarantine, remove | leases and containers outlive each other |
| Library and copies (`control_plane.py`, `api.py`) | items, bundles, grants, pending changes, templates; reservations of copies | grant, upgrade, revoke, review; duplicate, instantiate, fail, recover | a change is prepared long before it is confirmed; a copy dies half-way |
| End of a workspace (`service.py`, `store.py`) | `lifecycle_operation_effects`, `workspace_gc_tombstones`, revocations | terminate, apply an effect, replay, collect rows, remove storage | several processes take over each other's leases |
| Local QA (`local_qa_control.py`) | fault controls, audit rows, the arm ledger | arm, consume, record, clear, clean up | both sides are upgraded independently |
| API, MCP, files, UI | - | - | I/O around the parts above |

The parts interact through the database (each `Store` method is one `BEGIN IMMEDIATE` transaction),
through a per-worker `flock` that serialises a control with the start of a runtime, through files in
the run roots, and through in-memory registries of one service process.

What makes each part correct:

* **Ledger.** One worker executes at most one run; a run has at most one open attempt and the run row
  names it; an active lease fences exactly that attempt; the queue timeout never ends a run that was
  started; a terminal run stays terminal and holds no execution lease; an ended attempt is history.
* **Claims.** A settled stop is final; a steer's replacement is not dispatched early; a paused run is
  woken only by its resume; compute is released only while nothing runs; a claim whose owner was lost
  is finished by somebody else.
* **Processors.** A stale processor touches nothing of its replacement; a run whose process is alive
  is not dispatched again; a closed worker has no process.
* **Host processes.** A released lease leaves no supervisor behind; a live one can be reached by a
  control; a confirmed stop is true.
* **Missions.** One generation works at a time; a retry is not settled by old evidence; a run settles
  and its grants are revoked across restarts. A run's authority is in its own container only.
* **Capacity and routes.** No pool is admitted more than it allows and no memory is promised twice,
  whatever was stale; no attempt starts on a resting route and a run changes its route once.
* **Outbox and notices.** The receiver goes from one published result of a run to a later one; a row is
  settled only as what happened to it; every result arrives or is recorded as undeliverable; a user is
  told one story of a wait, in its order.
* **Schedules.** A schedule that was settled is not dispatched by an old claim; a run that was never
  claimed starts only for a dispatched schedule whose principal is enabled; a claim whose owner died is
  resolved.
* **Requests.** A key admits one piece of work; an action takes effect once and its answer is true; one
  run at a time authors a provider request; a Stop is final; a request settles.
* **Accounts, library, copies.** A home is mounted once; what is granted stays available and a removal
  undoes exactly one grant; a key makes one whole copy.
* **End.** The end is announced after the links are revoked, and none opens later; rows, then storage, are
  removed once and for good.

## 2. Modules

| Module | Contents |
| --- | --- |
| `HostRuns` | the run ledger: one action per `Store` transaction, plus the clock |
| `RunControl` (EXTENDS `HostRuns`) | lifecycle claims, their takeover and finalization |
| `RunDispatch` (EXTENDS `RunControl`) | processor threads, their registry, the flock, external processes, pause and resume, close, reconciliation |
| `HostProcess` | the supervisors of one worker on the host, the files they meet at, controls by recorded identity, stale leases |
| `Restart` | one docker mission over two restarts of the service |
| `CleanRoom` | the container of a clean-room worker and the authority of a run in it |
| `HostCapacity` | admission of delegations and dispatches to a workstation |
| `RouteHealth` | the circuits of provider routes and the switch to a fallback |
| `CallbackOutbox`, `ResultReceipt` | results, revisions, emission, delivery, the receiver; the abstract receipt it implements |
| `QueueNotices` | what a user is told while a run waits |
| `Schedules` | recurring, run-now and one-shot schedules and the scheduler loop |
| `Intake` | delegations and aliases |
| `ActiveWork` | signed actions on a workspace and their receipts |
| `ProviderRequests` | requests of the conversation provider, their runs, fallback and Stop |
| `ProviderAccounts` | the home of a provider account and everybody who mounts it |
| `Capabilities`, `Copies` | the library and what workspaces hold of it; duplication and instantiation |
| `WorkspaceEnd` | termination, durable effects, the collector |
| `LocalQA` | one-shot fault controls |
| `MC...` | instances of these for TLC |
| `...Proofs` | theorems and proofs (section 5) |

Modules that share no state are checked in one run where that is cheap: a variable `part` (`campaign`
in `MCRunDispatch`) is chosen at the start and the other parts stay out of play. Nothing is composed by
that; it only saves runs. The real composition is `HostRuns` - `RunControl` - `RunDispatch`, by EXTENDS.

### HostRuns

`run`, `attempt`, `lease` and `worker` are the four tables, reduced to the columns the properties tell
apart. `attempt[r][a]` is the attempt number `a` of run `r`; `lease[r]` is a single row because
`host_run_leases` has `UNIQUE (run_id)`. `run.inv` names the attempt whose invocation is recorded in
`runtime_invoked_at`. Every row comparison a method makes before it writes is a conjunct of its action;
a call whose comparison fails writes nothing and is a stuttering step.

Time appears as three flags: `lease.live` (`expires_at > now`), `run.due` (`retry_after <= now`) and
`run.late` (`queue_deadline_at <= now`). `LeaseExpires`, `RetryDue` and `QueueDeadlinePasses` flip them
at any moment, so no property depends on a clock rate.

The callers are not modelled here: any transaction may run at any time with current arguments. That is
more than the code does (a processor calls them in order), so an invariant of `Spec` holds for every
order of calls. Capacity limits only refuse an acquisition, which is a stuttering step.

### RunControl

`worker.kind`, `target`, `repl`, `proof`, `stop` are the `compute_release_*` and `work_stop_*` columns.
`held` says that a live thread owns the token. A control keeps the worker's flock from claim to
finalization, so another control can only take the claim over after `OwnerLost` (a crash, or an error
that leaves the fence in place). `Policy` is the admission test of `try_claim_worker_compute_release`
for each kind, for a fresh claim and for a takeover.

### RunDispatch

The composition of the ledger, the claims and `_process_worker_queue_parallel`. A processor is a thread
with a program counter; one step is one store call or one access to the registry, so everything else
may happen between two of them. What the thread keeps across its calls is explicit: `peek` and `run`
(`queued_run`, `current_run`), `copy` (the attempt of the local run row), `att` and `tok` (the
generation and the startup token it compares with the rows later), `guard` (it holds the flock) and
`end` (how `run_task` will return or raise: a pause or a close that stops the process notes its reason
there, `_note_stop_reason`).

* `owner[w]` is the registry: `_active_processors` with the generation of the current processor.
* `alive` is the set of external processes, each named by its run and attempt.
* `LockFree` is the worker's flock: a control holds it from claim to finalization, a processor from
  the validation of its start to the confirmation of it.
* `closer[w]` is the step of `terminate_worker`, which takes no lifecycle claim. It holds the runtime
  start lock from `cancel` to `complete`, so `Start` waits for these.
* `caught[w]` is the attempt whose process the pause of `w` has seen. A pause begins with the exact
  identity of a confirmed process (`_require_confirmed_host_control_identity`, `Identity`), stops that
  process and takes effect only when it is gone; a control that is taken over identifies anew.
* `Faults` names what the environment may do: refuse capacity, ask for an authorization, lose sight of
  a process that was started, let a lease expire, close the worker.

The module covers host mode (a pause kills the process, a resume queues the run again) and one
incarnation of a service process. Of the controls it has pause and resume; the other kinds are checked
in `RunControl`, against a ledger whose callers are free. `Effect` records the proof of a control and
retires the processor in one step: the two calls follow each other and the second cannot fail.

### HostProcess

What `RunDispatch` takes for one atomic process is opened up here. A generation is one launch of a run
(`run_task`, one thread each). Its supervisor names itself ready, waits for the start permit, authors,
and leaves an exit marker; its harness is a child in a process group of its own. The run thread goes
through the slot, the handle, the readiness file, `active_session.json` and the two observers before it
grants the permit. `files` is per run, not per generation: `_run_root(worker, run)` is shared by all
attempts of a run. `mem[p]` is what one service process remembers and loses in a crash. A control
captures the generation first (`Capture`), aims (`Aim`), signals in two steps (`Term`, `Kill`) and
finalizes (`FinalizeStop`); everything that releases the session, the handle and the slot compares them
with what it captured (`CanFinalize`). The reconciliation of a stale lease requeues, adopts, cleans up
or fences (`RequeueUninvoked`, `Adopt`, `CleanReserved`, `MarkUnconfirmed`, `CleanUnconfirmed`,
`RetireDead`). The ledger is reduced to the state of the lease, and to one generation at a time.

### Restart and CleanRoom

`Restart`: `svc` is one incarnation of the service with the memory it loses (processor or survivor
monitor, stop reasons, retained run); `alive` the sessions that work, `old` the evidence that lay on
disk when the current attempt was admitted, `rev` the durable revocations. A death may come at any step
of an attempt; a managed shutdown hands its generation over; `Startup` collects, adopts, replaces or
requeues. Both values of the adoption setting are initial states.

`CleanRoom`: docker knows the container by name, the service checks by generation. Two callers of
`ensure_ready`, a compute release, lost proxies and an image upgrade interleave, every docker command
may fail, and a run's authority is written to and cleared from one generation.

### HostCapacity and RouteHealth

`HostCapacity`: a run is `queued`, `running` (its start was confirmed), `settling` (it was not) or
`done`; the claims in between are those of the other modules. An admission is a small process `adm[e]`
of a service process: it measures (`Measure`), may reserve and probe (`AcquirePreflight`,
`EndPreflight`), and enters its transaction later (`ReserveDelegation`, `AcquireLease`) with what it
measured then. `Pools` abstracts everything that is limited by a count. Memory stands for the four
resources that the code measures, reserves and compares alike. `Refresh` takes a new measurement of the
workstation at any time, on which other programs use memory too. A lease or a reservation that expires
is a flag; a live executor misses its heartbeat only as a counted fault, a dead one always. The two
admission tests differ in the code and in the model: `PreacceptFits` counts unexpired leases and
reservations, `AcquireFits` every active lease and no reservation.

`RouteHealth`: a failure is stamped when it is seen and entered later, by the processor and by whoever
collects the same attempt; two threads open, look at, delete and expire circuits, and decide on a
switch before they make it.

### CallbackOutbox, ResultReceipt and QueueNotices

`result` is the run row reduced to its result and revision, which `NextRevision` (a trigger) advances
whenever the content changes. An identity (run, revision, content) has one outbox row. A sender is a
thread with what it remembers of its claim: the generation it compares with in `Settle`, the attempts it
read, its tries. `Post` may lose the request, the answer or both, or get an answer from somewhere else.
An emitter holds a snapshot of the run between its read, the building of the payload and the write. The
receiver is `accept_terminal_callback_result`, which the repository provides for it.

`ResultReceipt` says what the channel promises: each run publishes numbered results, one content per
number, and the receiver replaces what it holds only by a later one. The refinement maps `receiver` to
`held`; `published` is a history variable of `CallbackOutbox`.

`QueueNotices` has the generations of one run's waits: a pass takes the time, reads the due row,
composes, and compares and sets later; processors and users move the run in between. Several processors may
be between a requeue and its announcement (`telling`).

### Schedules

A schedule is an occurrence of a definition, a run-now request or a one-shot job; `row` is its scheduled
run, `occ` its occurrence. A thread in `process_due_schedules_once` keeps the schedule, the expected
`next_run_at` and its decision from one transaction to the next. An update of a definition reads, and
writes everything back later (`edit`). The calendar is abstracted to equal intervals.

The schedule's run goes through the states that the schedules tell apart: a queued run that was claimed
before is "again"; a run may be requeued, paused, wait for its owner and be resumed. The claim is
`_claim_next_queued_run_parallel`, which the service calls and which does not ask for the principal's
authority. What a run does reaches its schedule in three ways: in the transaction that ends the run
(`EndRun`), in one of its own that may be lost in a crash (`owed`, `Tell`: expiry, needs input, pause), or in
the row alone, without the occurrence (`LimitRun`, `StopWork`, `EndWorker`, `CancelPending`).

### Intake, ActiveWork and ProviderRequests

`Intake`: the digest of a request is a value, the host has slots, a caller that lost its answer asks
again. `ActiveWork`: the receipt of a key goes from reserved over executing to an answer; the claim of a
control is reduced to its operation, target and receipt; an executor may be slow or die, and another
takes its receipt over and reconciles it from the ledger. A stop that is finalised fails the worker's other
open receipts and accepts the cancellation of a run that it cancelled (`ReceiptsFinalized`). A resume of a run
that waits for its owner leaves an event behind, by which its repetition is recognised.

`ProviderRequests`: `cl` is the call that holds `_start_lock`, `sy` the synchronisation that holds
`_sync_lock`; a Stop holds the first across the second. `fbk[q]` is the thread that starts the fallback
of `q` outside both, `det` the detached reconciliation after a restart. The life of a native run is
reduced to what its request tells apart (`Ended`); the transitions themselves are those of `HostRuns`,
where `MissingResponse` and `ReopenDirect` are the two that a request causes.

### ProviderAccounts, Capabilities and Copies

`ProviderAccounts`: one account, a mission, an interactive session, a login child and a clerk that
cancels, quarantines and removes. A lease can outlive its holder and a holder its lease; who takes the
home over removes the containers that still mount it.

`Capabilities`: published items never change, so of an item's content only its presence in a bundle is
kept; a change is prepared, reviewed and confirmed later; only the newest grant can be revoked, while the
bundle is the one it left. `Copies`: a reservation names the project to be created; a crash leaves any
prefix of project, worker, files and report; recovery completes or undoes it.

### WorkspaceEnd and LocalQA

`WorkspaceEnd`: termination inserts two effects (revoke the links, announce the end), which processes
apply under leases with an epoch; the collector marks a tombstone, stops the compute, deletes the rows
and then the storage, and other collectors take over its cleanup. The tombstone names the storage only if the
claim could attest it (`tomb.root`). A client of signed links reads the worker's state, then the revocations,
in two databases, and then opens the link or inserts a reference (`ReadWorker`, `ReadRevocation`,
`InsertRef`); a failed read counts as "not blocked". `LocalQA`: a command line and a
service with independent builds and sessions; the ledger of arm identities is kept for ever, controls
and audit rows are removed by a cleanup.

## 3. Runs

Every run holds. Where a run has parts, only one of them is in play in a behaviour.

| Run | Configuration | Checks | Shows |
| --- | --- | --- | --- |
| `ledger_parts` | `PartSpec` of `MCLedger`. Ledger: one run, two attempts, two tokens, two executors. Library: two workspaces, two versions of an item and the item the newer one pins; at most three grants and disturbances together. Copies: three requests under one key, two files, two slips. Intake: two callers, one slot | `TypeOK`, `LeaseFencesCurrentAttempt`, `TerminalReleasesExecution`, `AttemptNeverReopens`, `TerminalAbsorbing`; `LibraryExact`; `CopiedOnceAndWhole`; `AdmittedOnce` | every order of the ledger's transactions; a removal undoes exactly one grant; one whole copy per key; one piece of work per key |
| `control_runs` | `FairControlSpec`; one run, two attempts, every kind but the steer | `LedgerInv`, `ReleaseFindsIdle`, `PausedStaysPaused`, `StopSettles` | lost owners and takeovers of every claim |
| `control_two_runs` | `ControlSpec`; two runs of one worker, stop and steer | `WorkerExclusive`, `StopAndSteerHold` | a second run created during or after a stop or a steer |
| `dispatch_campaigns` | `CampaignSpec` of `MCRunDispatch`, two threads: two runs under refused capacity, missing authorizations and unconfirmed starts; one run under pause, resume and expired leases; two runs that compete while either is paused; a close that may fail against the retries of a run, and against its pause; the container of a clean-room worker with an upgrade of its image, or with an outage of its proxies during the first run | `ProcessesExclusive`, `ClosedIsQuiet`, `CleanRoomHolds` | no second process, none after a close, authority in one container generation only |
| `outbox_delivery` | `DeliverySpec` of `MCDelivery`. Outbox: one run with an amended result, a notice, two senders, one fault, or a replay of a notice that spent its budget. Waits: two waits, two passes. Host: two launches of one run by two processes, the first harness ignores SIGTERM, one pause; one crash or stall, or one late or refused start or failed probe; both lanes | `RowsAreTrue`, `ImplementsReceipt`; `NoticesTrue`; `StopsExact` | rows and receiver agree whatever is lost; a wait is one story; stops and cleanups hit the generation they captured |
| `outbox_settles` | `FairOutboxSpec`; one sender, an unusable and a usable contract, one fault | `ResultArrives` | every result arrives or is recorded as undeliverable |
| `schedules_loop` | `FairSchedSpec`; one definition, one run-now token, no one-shot job, one thread, `MaxTime` 1, policy "skip", overlap skip, `MaxEvents` 2 | `EndedStaysEnded`, `ClaimResolves` | updates, retirement, disabled principals, a close and crashes between any two transactions; runs that are requeued, wait, are resumed, stopped or expire |
| `capacity_limits` | `GateSpec` of `MCHostCapacity`. Capacity: three runs, two service processes, a lane of two and a pool of one, one unit of memory, one fault. Routes: two missions, one of them a conversation, two threads, a primary and a fallback; three attempts and two failures, cooldowns of one and two units | `AdmittedWithinLimits`, `CircuitsRouteOnce` | admissions on stale measurements; circuits entered late, and a cooldown that is kept |
| `provider_turn` | `FairProviderSpec`; two requests of one turn, a fallback, one fault | `OneAuthor`, `StopHolds`, `SettlesOrOrphaned` | observers, fallback, Stop and a crash |
| `requests` | `RequestsSpec` of `MCRequests`. Work: two keys with every pair of actions that disturb each other, two processes of which one may be lost or slow. Accounts: a mission, an interactive session, a clerk who rests after the second trouble. Faults: three builds and sessions | `WorkOnceAndTrue`, `WorkStoppedIsEmpty`; `AccountUsedOnce`; `FaultsExact` | an action takes effect once; a home is mounted once; a fault strikes once |
| `workspace_end` | `FairWsSpec`; two threads, each of which replays or collects, one of them also a client of signed links; one run, one trouble | `AnnouncedAfterRevocation`, `CollectedIsRemoved`, `TerminationTakesEffect` | effects under leases, links between check and use, and a collector that crashes |
| `restart` | `FairRsSpec`; four attempts, two restarts, one fault, with and without adoption | `OneGeneration`, `ResultIsFresh`, `RunSettles`, `ArmedIsApplied` | a mission across deaths and managed shutdowns |

The runs take between a few seconds and a few minutes on two cores and explore up to about two million distinct
states. They are sized to end well within five minutes on a machine half as fast; the theorems of section 5
carry what they show beyond their bounds.

### Bounds

`MaxAttempts` and `MaxTokens` bound the attempts and the startup tokens of one run. Two of each give
every property that speaks about an old and a new generation both of them. The two-run configurations
use one attempt where the property is about the runs and not about their generations. The campaigns of
`MCRunDispatch` set their own bounds: two runs meet missing capacity, lost starts or a pause, one run the
expiry of leases; a close meets two tokens or a pause, but not both; a container meets two images or lost
proxies. One worker is enough: no transaction of the ledger, no claim and no thread reads two workers,
except through capacity, which only refuses. Two threads are one processor and its replacement; threads, senders,
service processes and executors that are model values are interchangeable and form symmetry sets in the
runs that check safety only. Two service processes are the one that launched a process and another one;
two launches are a generation and its retry. `MaxFaults`, `MaxTrouble`, `MaxCrashes`, `MaxMishaps` and `MaxSlips` count
what the environment does (so does `MaxEvents`, together with the rarer steps of owners and runs); one or two of them suffice for every hazard that the runs are for, since each
needs a fault and its handling. Clocks (`MaxTime`, `LastTime`) are as long as one wait and its end.

`ProcessesExclusive` asks for different things under different faults for a reason. `OneProcess` does not
hold when a lease may expire *and* a start may stay unconfirmed or the worker may be closed, nor when a
worker with two runs is closed: a worker that is `termination_failed` is claimed again, or a run is
requeued while its process lives (section 4), and a second process starts. So it is checked where the
registry alone has to protect it. `ProcessFenced` is about processors and does not hold across a close,
which cancels the rows before it stops the process. That order is also why the processor of a closed
worker finds its attempt ended and reports nothing: `HandleTerminated` has no write of its own.

Deadlock is not checked: a service whose runs have all ended and whose bounds are used up may stop.

### Fairness

* `ControlFairness`: weak fairness of `Takeover`, strong fairness of `ConfirmEffect` and `FinalizeClaim`.
  `recover_expired_compute_release_claims_once` runs in every reaper cycle and enters the same control
  path again for each pending claim, so a claim that can be taken over is taken over. `OwnerLost` may
  strike at any point of the path, therefore the later steps are enabled again and again but not
  continuously; strong fairness says that an owner does not crash at the same step for ever and that a
  runtime that is asked repeatedly confirms in the end. No ledger transaction is assumed to happen.
* `OutboxFairness`: the retry loop ticks for ever, the executor runs what is submitted, a dead process
  is started again with the same loops. No fault, no end of a run and no replay is forced.
* `SchedFairness`: the loop passes over all claims, definitions and due rows again and again, so a row
  that is due in every pass is visited (strong fairness). A queued run is claimed or its deadline passes; a
  run that is claimed again and again ends, since the deadline of its wait and its retry budget survive a
  requeue (strong fairness). Nothing forces the owner to answer a run that waits.
* `ProviderFairness`: threads finish their calls and runs end; a pending request is listed by every
  retry tick and at every restart, so it is not passed over for ever (strong fairness).
* `FairWsSpec`: the retry loop and the reaper of every process run for ever, and leases and requests end; a
  loop that finds an effect or a cleanup free in pass after pass takes it (strong fairness).
* `RsFairness`: a launcher restarts the service, its threads and the generations make progress (a run
  timeout is configured, so a wait ends even if its container vanished), and the lease of a dead
  incarnation expires. Shutdowns, deaths and reads are free.

## 4. What the code does not promise

No configured run expects a violation. This list keeps what modelling brought up: formulas that TLC
refutes under the specification of their module (the module's comment quotes the sentence they were
written from, or says "Does not hold"), and orders of steps a reader of the code will want to know of.

**Ledger, claims and processors.**
* `PermanentClose`: the claim of a run reopens a worker that is being closed (`store.py:8182`).
* `QueuedIsAdmissible`: a run that waited for input returns to the queue with its ended attempt, and
  every reservation refuses it (`store.py:14055`) until its queue deadline fails it.
* `ReleaseSettles`: the release of a paused worker without runs can be claimed but not taken over
  (`store.py:21194`); if its owner is lost, the fence stays.
* `ResumeSettles`: a run paused between claim and start keeps an ended attempt, for which no resume can
  be finalized (`store.py:22334`).
* `CleanupSparesReplacement`: `_release_host_run_lease` (`service.py:18215`) releases whatever lease the
  run has now; after a pause, a resume and a new claim, the `finally` of the old processor releases the
  new attempt's lease. `UnconfirmedSettles` fails because of `service.py:18235`, below.
* `RequeueNeedsAbsence`: `reconcile_invalid_running_runs` (`store.py:14564`) requeues a run whose lease
  merely expired, although its process may live. Together with a close, `OneProcess` fails.
* A steer's target keeps its lease until the claim is finalized: `FinalizeSteer` releases it there. An
  earlier version of the model released it with the interruption; the proof of `LedgerUnderControl` did
  not go through until that was corrected.
* `_process_worker_queue_legacy`, `_requeue_retryable_run_legacy` and `_requeue_run_for_retry_legacy`
  have no caller in the parallel configuration and are not modelled.

**Host processes** (`profile_runtime.py`, `service.py`).
* `start-permit`, `exit_code` and `supervisor-ready` are per run and survive an attempt: a retried
  supervisor finds the old permit and authors before its own start is confirmed; after a rejected start
  (an exit marker and no permit) the retry's permit is withheld, and every retry times out.
* `_stop_active_process` kills the supervisor after five seconds, about when the supervisor would kill its
  harness, which has a process group of its own: a harness that ignores SIGTERM can outlive a confirmed
  stop. `ReceiptIsTrue` says exactly that much.
* A mission leaves its session file when it ends; a following failed launch then mismatches in its
  cleanup and leaks the slot, and `terminate_worker` of an idle worker raises "identity not confirmed".
* A pause between confirmation and permit makes `run_task` raise "metadata was not durably recorded"; a
  stop of a mission that races the run thread's own finalization raises "ownership changed" although the
  process is gone, or its reason is taken before the thread reads it, and exit 143 is a failure.
* `reconcile_worker` and `describe_worker` write the permit for any live session. `reconcile_worker` while
  the process is dead but the thread is not finished takes the lane and leaves the worker in the lane's
  set; after a restart it records a lane without a token, and a stop's finalization then fails until it
  runs again without a process.
* A failure between the start of a supervisor and its publication leaves a process that nothing records,
  alive until its handshake ends after thirty seconds; it shares the permit of its retry.
* A live executor renews a `termination_unconfirmed` lease (`service.py:18235`), so it is reconciled only
  after that executor stopped; an invoked reservation without an identity is fenced for ever, because
  `host_process_absence` never proves anything for the host.
* `detach_worker` notes a reason without an attempt that this runtime never takes; the handlers of
  `subprocess.TimeoutExpired` around waits without a timeout are dead code.

**Restart and containers.**
* The detachment at `service.py:2055` precedes the retained mark at 2063; `Store.__init__`
  (`store.py:1523`) repairs leases before the service could revive them (`service.py:18383`,
  `tests/test_host_run_leases.py:7204`); `_recovered_run_lease_is_active` is vacuous there (12429).
* `heal_worker` and a crash turn exit 130 into a failure; `_reconcile_worker_row` collects once and then
  probes; an expired start reservation leaves a run admitted without a lease; a run that timed out is
  settled as failed while its process lives; a crash between the broker's admission and the enqueuing
  leaves the grant to its revocation row.
* Clean room: authority stays after a failed inspection that follows its projection
  (`docker_sandbox.py:1998`, `profile_runtime.py:5655`); a rejected start skips the removal of
  `profile_runtime.py:5892`; the removal fails on a paused container and returns silently when the
  inspection itself fails (`docker_sandbox.py:2030`); a session is started by name.

**Capacity and routes.**
* `WritersExclusive` with `Adopt` FALSE: a restart that does not adopt survivors releases the leases of
  processes that live, and a second writer of one repository is admitted beside them (`store.py:13635`).
* `_clear_provider_route_health` never closes a circuit (`tests/test_host_run_leases.py:3633`); an earlier
  failure written late is dropped (`store.py:20121`); the switch does not check the attempt
  (`store.py:9869`).

**Outbox, notices, schedules.**
* `UnavailableIsUndeliverable` (`store.py:8700`): a reconciliation that read an older contract marks the
  result unavailable for one that can deliver. `ResultArrives` counts that as recorded.
* Two passes that refresh one wait: the later one computes the next sequence number in its transaction and
  raises instead of giving up (`store.py:24688`), which ends its pass. A run put back by
  `_downgrade_unproven_running_conn` (`store.py:14532`) waits without refreshes and with the marks of its
  last wait.
* `RetiredIsQuiet` (`service.py:9278`): an update that read the definition before its retirement writes the
  active state back. `OneShotResolves`: a one-shot job claimed by a process that died is never recovered;
  the comment at `service.py:9799` wants to avoid that. `EndedStaysEnded` with two threads: a claim that
  expires under a slow thread breaks the link by which the run would be found.
* `DisabledNeverClaimed`: disabling a principal is to "Atomically gate future fires and retire
  already-materialized native work" (`store.py:10847`), but it spares a run that is held at that moment
  (10890-10895). When such a run is requeued or resumed, the next claim starts it again, because
  `_claim_next_queued_run_parallel` does not ask for the authority: `require_schedule_principal_authority_for_run`,
  which is to "Fail closed immediately before executing a queued run derived from a schedule."
  (`store.py:8348`), has no caller, and the claim that checks (`store.py:8228`) is not the one the service uses.
* The link from a schedule to its run is also lost when a dispatch fails after it made the run
  (`service.py:9812`): the run stays queued, and neither disabling nor the end of the schedule finds it.
  `FirstClaimIsDue` names this case.
* A schedule whose run waited for its owner stays `needs_input` after the run ended, since
  `finalize_schedule_for_run` moves queued and running rows only (`store.py:11925`); `rebind_schedule_run` and
  `cancel_schedule` have no caller. A pause fails the schedule (`service.py:11361`) although the run is resumed
  and completes. What a run that expires, waits or is paused owes its schedule is lost in a crash.
* A run that was too long, a stop, a termination and a failed launch cancel the scheduled run and leave
  its occurrence open (`store.py:21801`, 22058, 23282, 10609); the first three relabel a failed row. A claimed
  run is not counted as active (`store.py:11859`), so an overlap is not seen.

**Requests.**
* A cancel writes without comparing (`conversation_provider.py:4486`) and works on a record it read
  before: it misses a fallback run, and runs that are claimed or admitted; a reopened request does not
  check its reservation again; the repair of a crash between the claim and the start of a fallback
  (`store.py:19270`) has no caller. An error while the run of a failed fallback is retired is swallowed
  (`conversation_provider.py:5613`), and the run stays queued without a request that waits for it.
* `ResumesOnce`: a repeated resume of a run that waits for input re-admits it again (`store.py:17944`).
  `ConflictIsTrue`: a cancel that meets another control's claim is recorded as a conflict for good
  (`service.py:10760`). `ActiveIsListed`: an action on a dismissed delegation leaves it dismissed
  (`store.py:17466` has no caller). `RefusedIsInert` with slow executors: one that lost its receipt may
  still create the run that its successor refused. A stop fails the
  other open receipts of its worker, also one whose operation is done and not yet reported (`store.py:22064`). A pause receipt that a resume has overtaken stays
  pending (`api.py:3563`).
* Intake: `recover_queued_reservations_once` (`service.py:6957`) and `start_reserved_delegation` (6980)
  have no caller; an alias is not unique, its quota lock is per process and its reuse writes the route
  back (8500-8523).

**Accounts, library, copies.**
* `ClearedIsClean` (of `ProviderAccounts`) and `ReadyIsSigned`: a check whose session was cancelled under
  it writes its verdict over a newer quarantine or a removal (`provider_accounts.py:1032`); `OneMount` with
  a late heartbeat
  (`mission_provider_accounts.py:995` against `profile_runtime.py:2402`), which is why `AccountUsedOnce` is
  about leases that did not end under a living holder; a login child that survives
  (`provider_accounts.py:642`); the interactive lane does not see claimed and admitted runs
  (`control_plane.py:812`).
* A bundle is read, merged and written back in two steps (`service.py:8491-8523`, 10388, 10529-10559), so
  a concurrent change is lost; the update to `expired` is rolled back with its transaction
  (`control_plane.py:2495-2500`); an account switch looks only for queued and running runs (2755-2762); a
  template takes its account selection along.
* One key can copy two workspaces (`api.py:3932`, 4004); a template's reservation can stay for ever;
  pending copies are unusable until they are recovered.

**End of a workspace, local QA.**
* `CollectedIsIdle` and `WaitingKeepsWorkspace`: a run that is claimed and not yet running, or waits for
  input, is no blocker and loses its rows (`store.py:5715`, 5620); `CollectedIsUnlinked`: an error of the
  revocation is logged and not retried (`service.py:4792`); the collector
  deletes undelivered callback rows (`store.py:6047`); effects of a deleted worker are retried for ever
  (`service.py:15580`).
* `AnnouncedWithoutRefs`: `create_signed_link_ref` (`signed_links.py:437-485`) does not look at the revocation
  again when it inserts, so a reference may exist after the announcement. It does not open:
  `resolve_signed_link_ref` checks again. Errors of the databases let a link through (84, 511);
  `AnnouncedAfterRevocation` is about reads that succeed.
* `CompletedIsRemoved`: if no storage can be attested at the claim (`service.py:4607-4691`: a workspace on the
  host, a root of its own, recorded paths that differ, an error of the file system), the removal is skipped
  (4705) and the cleanup recorded as completed with the directory in place. `CollectedIsRemoved` is about
  workspaces whose tombstone names a root; one that is not attested any more at the cleanup is retried.
* The termination of a worker without a callback contract is marked as announced without a notice
  (`service.py:15693`).
* Local QA: `UNIQUE (control_ref)` (1595-1610) is what keeps a repeated arm from striking again;
  `record_effect` after a cleanup raises.

## 5. Proofs

Every theorem holds for any set, finite or not unless said otherwise, of runs, workers, executors, threads, senders and
processes, and for any value of the bounds, from the assumptions its module names: runs are positive
numbers, every run has a worker, the bounds are positive, callers ask for terminal outcomes and write
only open worker states (`HostRuns`); the kinds that callers use are claim kinds (`RunControl`); the
processors' own outcomes and worker states are among those of the ledger, and no thread is called
"none" (`CallersAssumption`, `DispatchAssumption`); bounds and contracts are numbers (`CallbackOutbox`, `Restart`, `HostProcess`), the
controls are pause, interrupt and terminate, and no service process is called "none" (`HostProcess`);
a request has at least one native run to its name (`ProviderRequests`); the first items of the library are
published with their pins (`Capabilities`); runs and executors are finitely many, limits are positive and the
headroom is a part of the memory (`HostCapacity`); bounds are numbers (`LocalQA`, `Schedules`); a container has at least one generation (`CleanRoom`); the
quota and the number of workers are numbers (`Intake`); requests for copies are finitely many and the
files of a project have a number (`Copies`); cooldowns are whole units of the clock (`RouteHealth`); a flow
is a worker and its purpose, and neither a clerk nor the login session is one (`ProviderAccounts`); keys are
finitely many positive numbers and no service process is called "" (`ActiveWork`).
TLC evaluates each of them in a run. Two theorems have a hypothesis of their own: the faults that
`NeverTwoProcesses` excludes, and one scheduler thread (`NothingEndedStarts`).

There are eight modules of theorems; where two components have disjoint vocabularies they share one.

| Module | Theorems | State |
| --- | --- | --- |
| `ControlProofs` | `TypeCorrect`, `LedgerConsistent` | `Spec => []TypeOK`; `Spec => []LedgerInv`, the inductive invariant of the ledger |
| | `LeaseFenced`, `AttemptsExclusive`, `Exclusion`, `QueueTimeoutSparesRunning`, `TerminalReleased` | its parts: leases, open attempts, workers, the queue timeout, terminal runs |
| | `TerminalRunsStay`, `EndedAttemptsStay` | the action properties `TerminalAbsorbing` (a terminal run stays terminal; only a completed one may be failed afterwards) and `AttemptNeverReopens` |
| | `ControlCorrect`, `LedgerUnderControl`, `ExclusionUnderControl` | `ControlSpec => []ControlInv`, and what it says of the ledger under claims |
| | `ReleaseIsIdle`, `StopsAndSteers`, `PausedRunsStay` | `ReleaseFindsIdle`, `StopAndSteerHold`, `PausedStaysPaused` |
| `DispatchProofs` | `DispatchCorrect`, `ExclusionUnderDispatch`, `ClosedWorkersAreQuiet` | `DispatchSpec => []DispatchInv`, with `WorkerExclusive` and `ClosedIsQuiet` |
| | `DispatchImplementsControl` | `DispatchSpec => ControlSpec`: the processors refine the claims |
| | `NeverTwoProcesses` | `OneProcess`, while no start is lost sight of and no worker is closed |
| `DeliveryProofs` | `OutboxCorrect`, `RowsTrue`, `Agreement` | the inductive invariant, `RowsAreTrue`, and that no answer is a conflict |
| | `OutboxImplementsReceipt` | the outbox refines `ResultReceipt` |
| | `ProcessCorrect`, `ProcessTypes` | `ProcessSpec => []ProcessInv`, the inductive invariant of host processes |
| | `StopsAreExact`, `OneGenerationInUse`, `DeadStaysDead` | `StopsExact`; at most one generation of a worker holds an open lease; a supervisor that is gone never returns |
| | `NoticesTellOneStory` | `NoticesTrue` |
| `RestartProofs` | `RestartCorrect`, `NeverTwoGenerations`, `ResultsAreFresh`, `SettledRunsStay` | `OneGeneration`, `ResultIsFresh`, and that no recovery path moves a settled run |
| `ProviderProofs` | `ProviderCorrect`, `OnlyOneAuthor`, `AnswersAreReal` | the inductive invariant of requests; `OneAuthor`; `CompletedIsAnswered` |
| | `StopsAreFinal` | `StopHolds` |
| | `AccountIsUsedOnce` | `AccountUsedOnce` |
| | `StoppedWorkIsEmpty`, `ActionTakesEffectOnce`, `ActionsAnswerTruly` | `WorkStoppedIsEmpty`; `EffectOnce`; `WorkOnceAndTrue`, that is `EffectOnce` and `AnswersAreTrue` |
| `WorkspaceProofs` | `WorkspaceEndCorrect`, `AnnouncedLast`, `StorageLast`, `CollectedStaysGone` | `AnnouncedAfterRevocation`, and that storage goes after rows, which stay gone |
| | `WorkIsTakenInOnce` | `AdmittedOnce` |
| | `KeyMakesOneCopy` | `CopiedOnceAndWhole` |
| `PartsProofs` | `LibraryCorrect`, `GrantsAreSafe` | the inductive invariant of the library; `LibraryExact` |
| | `CapacityCorrect`, `AdmissionsFit` | the inductive invariant of the admissions; `AdmittedWithinLimits` |
| | `FaultsCorrect`, `FaultsAreExact` | the inductive invariant of the fault controls; `FaultsExact` |
| | `RoutesRestAndSwitchOnce` | `CircuitsRouteOnce` |
| `EdgeProofs` | `SchedulesTyped`, `SettledStaysSettled` | types of the schedules; `SettledNotDispatched`: a settled schedule is never dispatched and stays settled, for any number of threads |
| | `NothingEndedStarts` | `EndedStaysEnded`, for the one thread that the service has |
| | `AuthorityStaysInItsRoom` | `CleanRoomHolds` |

**The ledger.** None of its invariants is inductive alone. That a claim mints no second open attempt needs
`WaitingIsQuiet`; that needs every path back to the queue to end the attempt the run row names, which
is the open one only by `OneOpenAttempt`; that the recovery of a lease ends the right attempt needs
`LeaseFencesCurrentAttempt`; and the queue timeout spares a running run because its wait is closed by
the invocation of the current attempt (`RunningLeftQueueWait`). `LedgerInv` is their conjunction. The
proof regroups it by run: `RowInv(r)` is everything `LedgerInv` says of the rows of `r`, and
`LedgerByRows` shows that `LedgerInv` is `TypeOK`, `WorkerExclusive` and `RowInv` of every run. A
transaction on one run leaves the rows of the others alone (`Frame`, `OneRunStep`) and can break
`WorkerExclusive` only by dispatching a run that was not dispatched, which only a claim does, and its
guard finds no other dispatched run of the worker. What remains is one step per action, for which the
lemmas on requeued, terminated and downgraded rows are shared.

**Claims.** `ControlInv` adds to `LedgerInv` that a frozen run still owns its worker (`EngagedExclusive`: a
paused run with an open attempt counts as dispatched), that what was invoked has left its wait, and what
each phase of a claim says of its target and its replacement (`ClaimInv`). A transaction of the ledger
disturbs a claim only through its target or the worker's row, so the proof classifies how a transaction
may move one run (`Moves`) and treats the finalizations one by one. This proof corrected the model: the
target of a steer keeps its lease until the finalization.

**Processors.** `DispatchInv` is `ControlInv` of the rows, that a thread acts on a run of its worker
(`ThreadsKnow`), that a process belongs to a run, and that a closed or stopped worker is quiet. Each step
of a thread either leaves the rows alone or is one transaction of `ControlNext`; these lemmas (one for each
action) give both the invariance of the rows' part and `DispatchImplementsControl`.

**One process.** `NeverTwoProcesses` has a hypothesis, `{"unconfirmed", "close"} \cap Faults = {}`: with
either fault a process may live that no thread waits for, and with expired leases the worker gets another
one (section 4). Leases may expire, reservations may be refused and authorizations may be missing. The
core of `ProcessInv` is `Held`: the registered processor of a worker waits, at `observe` or `work`, for
every process the worker has. Then one processor means one process. The registry keeps `Held` only if no
processor is retired while its process lives, and that is what the rest is for. A pause retires the
processor when the process it identified is gone, so that process must be the only one
(`CaughtProcess`); it was identified by a confirmed lease, so the only process of a worker must be the one
its confirmed lease names (`ConfirmedProcess`); a start confirms the lease in the attempt it was spawned
for (`Starting`), since the flock keeps out a second start and every control from validation to
confirmation (`Guarding`), and a confirmed lease belongs to an invocation that is under way or frozen
(`ConfirmedRuns`, with `EngagedExclusive` of the claims). The earlier model stopped whatever process the
run had when the signal was sent; this invariant was not inductive for it, and reading
`_require_confirmed_host_control_identity` again corrected it. Most steps are "calm" (`Calm`: nothing is
invoked, confirmed or claimed); one lemma serves them all, and `Guard`, `Invoke`, `Start`, `Observe` and
`BeginControl` are proved one by one.

**Outbox.** `OutboxInv` says that the revisions of a run number its published results, and that whatever a
sender, an emitter, a row, the channel or the receiver carries was published with that number. Then a
compare-and-set that accepts a later number only moves the receiver forward, which is the refinement.

**Restart.** One live generation at most, which is the newest that was started; generations of the future
are empty; a result belongs to the generation the run names, and what was on disk when it was admitted
stays apart from it. **End of a workspace.** A notice implies revoked links because the announcement asks for the applied
revocation, and nothing takes a revocation back; a client that reads it after the announcement is refused,
so no link opens late, however old its first read or its reference is (`LinksDead`). A cleanup is under way
only after the rows are gone (`CleanupIsLate`), and no step writes a worker's row again (`StaysGone`).

**Host processes.** The three parts of `StopsExact` rest on one fact: of a worker's leases at most one is
neither unset nor released (`OneBusy`), and a supervisor is started only under a reserved lease by the
thread that holds the worker's lock. So a control or a reconciliation that holds a generation past its
confirmation meets no launch, and what it saw dead stays dead until it finalizes. `ProcessInv` adds what
each place of a run thread knows of its supervisor, its slot and its handle, that a process has one active
thread, and what each step of a control has established. Its proof goes by frames: steps that move one
thread only, the control only, one lease, the handles of a process, or the signalled child
(`ThreadOnly`, `ControlOnly`, `LeaseOnly`, `HandlesOnly`, `SignalledOnly`).

**Provider requests.** A request has at most one run that works, and none while its fallback is claimed: the
claim is taken only for the run whose structured quota failure was read, and what was read of an ended
run stays true (`EndsStay`), although the reader holds no lock between the two. After a crash in the start
of a fallback the claim stays, so no second one is taken and the orphaned run stays the only one. A Stop
waits for exactly one thread (`StopInv`), so it is told of one row only.

**Library.** `LibraryInv`: what is available has its pins available (an item is retired only when nobody pins
it), what a workspace was granted is available, and a grant remembers the bundle it left, which its plan made
from the one it found. The middle part is what `GrantsStayAvailable` needs: a review that is confirmed later
asks for availability again. An exact removal needs the third for the newest grant only.

**Host capacity.** What a measurement found free plus what it saw reserved fits the memory, for the cache and
for each executor between its measurement and its transaction (`CacheTrue`, `MeasurementsTrue`), although
leases come and go in between: the transaction deducts the leases the measurement did not see. With
that, an admission keeps the memory, and the counts of a pool change by one under the guard that
counted them, which is a fact about cardinalities of finite sets.

**Fault controls.** The control, its row in the ledger, its audit rows and the history of strikes agree
(`Controlled`, `Recorded`, `Told`); a strike happened in the environment and the time of its control, and
once (`StrikesTrue`, `StruckOnce`). The ledger outlives the controls: without its row a repeated arm after a
cleanup would strike again.

**Schedules.** `LinkInv`: a linked schedule is dispatched, waits for its owner or is settled; a schedule with a
run is linked or settled; a run that was never claimed in an open workspace belongs to a schedule that is
dispatched under an enabled principal, or to one that a failed dispatch has unlinked; the claim that a thread
works on is still its row's; and only claimed runs owe something to their schedule. So disabling, which
looks for runs through links, finds every run that has not been claimed, and `FirstClaimIsDue` follows
although the claim asks for neither schedule nor principal. That the claim is still the row's is false with
two threads: a claim that expires under a slow one is recovered, and the slow one then writes a row that another
holds. So `NothingEndedStarts` has one thread as its hypothesis (the service starts one scheduler loop), and
`SettledStaysSettled` needs none, because the creation of a run asks for the claimed row in its own
transaction.

**Clean room.** What lives has the name, and what does not live holds no authority (`NameInv`); the launch
works for a run that is not cleared, in the generation of its grant (`LaunchInv`); if the home is seeded, or
about to be, every live container is strict (`StrictInv`). Sessions are started by name and
authority is written by generation; `NameInv` is what makes the two the same.

**Intake.** Whoever counts workspaces, or has counted them, holds the lock, and what was counted is still
below the quota (`Counting`, `CountIsTrue`), since everybody outside the lock only closes workspaces. Every
answer, and every worker about to be answered, is that of a delegation with the caller's key and digest
(`AnswersKnown`), whichever of the two look-ups found it. That the first free worker and the newest of an
alias exist is an instance of well-founded induction on numbers.

**Provider accounts.** At most one party holds the lease of the home, and as long as no heartbeat is late
whoever mounts it or removes a container of it holds that lease while nothing else is mounted; only then
can the next holder clean up without touching a live mount. A mission is given to a harness only from a place at
which nothing was given yet (`Undispatched`), and no way leads back to one.

**Active work.** A process that is at a claim holds the worker's lock, and the claim stands until it is
finalised. A stop leaves a tombstone: no other control is claimed beside it, it has no outcome while it is
carried out, and no run is created or resumed under it (`StopStands`), hence `WorkStoppedIsEmpty`. That an
action takes effect once rests on what cannot be done twice for a key: its run identity, the operation its
receipt is bound to, and the receipt of a capability (`Once`). Slow executors are included: the receipt may
be lost while its first executor goes on.
That an answer is true (`ActionsAnswerTruly`) needs to say what is known at each place (`AnswersInv`): of every
claim, what was done of it and which key it belongs to (`ClaimTrue`); of every key, that its effect and the state
of its run agree (`KeyTrue`); of every receipt and of every executor, that what it says or is about to say
agrees with both (`ReceiptTrue`, `CallTrue`); and that a receipt that is bound to an operation fails only with
a stop (`FenceInv`). An operation is finalised one way, lost or done, and that stays
so; this is what a reconciliation of a receipt relies on that reads the operation after its executor has gone.
Steps that leave the ledger alone (`Quiet`) are proved together; each of the others has a lemma. A steer takes
effect by the replacement run, so a selection of the oldest queued run must find one: that a finite set of
runs has a least number is an instance of well-founded induction.

**Queue notices.** The row counts the notices of the wait it is in, so a refresh whose compare-and-set succeeds
is the next one after the last that was told. The exception is a run that was put back while it seemed to run:
it keeps the counts of an older wait, but it has no time for a refresh, and no pass read it before its deadline
(`LastTold`, `Unrefreshed`).

**Copies.** A project belongs to the call whose reservation names it, and a copy that was reported is never
taken apart. While no call outlives its reservation - and in templates always - one call is active at a time
and the reservation names the only project that may have a worker, so a recovery finds all there is to undo.

**Provider routes.** A reset that was entered is over or is still known to the circuit; one thread chooses for
an attempt, and it has seen no circuit when it does; a running attempt has seen none, so the deletion after a
success finds nothing to clear; the route changes only in the transaction of the switch, which asks for the
primary.

**Only model-checked.** Liveness under fairness (`StopSettles`, `ResultArrives`, `ClaimResolves`,
`SettlesOrOrphaned`, `RunSettles`, `ArmedIsApplied`, `CollectedIsRemoved`, `TerminationTakesEffect`) is out of
the prover's reach. Of the safety properties, `ProcessFenced` (the part of `ProcessesExclusive` that is about
leases, without expiry and controls) is checked by TLC on the instances of section 3 only.

## 6. Not modelled

* HTTP API and MCP front ends (`mcp_server.py`, most of `api.py`), the UI, rendering, formatting of
  prompts, files and evidence: I/O around the parts above.
* Cryptography and replay protection by `UNIQUE` constraints; token formats of the brokers and the
  proxying of requests.
* Columns that no property tells apart: usage, texts, traces, container ids, backoff intervals, wording.
* In `RunDispatch`: native child processes, stalls of local QA, `collect_completed_run`, the controls other
  than pause and resume. In `HostProcess`: writing the workspace and its configuration, the events of a
  native session, several workers in a lane (a slot of the worker itself is modelled), the controls'
  claims in the ledger. In `Restart`: OpenClaw gateways and host processes. In `Schedules`: calendar
  arithmetic, the deployments without `multi_user` mode (which check no authority), and the cancellations of
  provider requests (`store.py:19364`, 19449), whose runs have no schedule. In `RouteHealth`: evidence that is
  entered between the choice of a route and the invocation on it. In `HostCapacity`: the relief of Docker pressure by stopping idle workers.
* Teams, invitations, the audit log, native teams.

## 7. Plan

1. A proof of `ProcessFenced`: the invariant must also say which thread answers for a lease.
2. The compute-release path of the reapers with its runtime part, composed with `HostProcess`.
