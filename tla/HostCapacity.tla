---------------------------- MODULE HostCapacity ----------------------------
\* Admission to the workstation: the lease a run needs before its runtime may
\* start, the reservation a new delegation holds while its runtime is probed, and
\* the heartbeat and reconciliation that give both back (store.py, service.py).
\*
\* An admission reads a measurement first and enters its transaction later, so
\* everything it measured may be stale.  Expiry is a flag: a heartbeat of an
\* unexpired lease only moves a deadline and is not a step.  The claims and
\* attempts between a lease and a start are those of HostRuns and RunDispatch; a
\* start is one step here.
EXTENDS Integers, FiniteSets, FiniteSetsExt

CONSTANTS
    Runs,        \* runs, each of a worker of its own
    Executors,   \* service processes on one database; a restart is a new one
    Docker,      \* the runs of isolated workers, which reserve a unit of memory
    Pools,       \* what a limit counts: a family's lane, the missions of an
                 \* account or of a tenant, the writers of one repository
    Memory,      \* units of memory of the workstation
    Headroom,    \* units that must stay free
    Adopt,       \* _restart_survivor_adoption_enabled
    MaxFaults    \* bound on crashes, late heartbeats and failed starts

ASSUME CapacityAssumption ==
    /\ IsFiniteSet(Runs) /\ IsFiniteSet(Executors)
    /\ Docker \subseteq Runs
    /\ Pools \subseteq [members : SUBSET Runs, limit : Nat \ {0}]
    /\ Memory \in Nat /\ Headroom \in 0 .. Memory
    /\ Adopt \in BOOLEAN /\ MaxFaults \in Nat

VARIABLES
    run,      \* run rows
    lease,    \* host_run_leases, one row per run
    pre,      \* preflight_capacity_reservations, the last one of each executor
    adm,      \* the admission an executor is in: its run and what it measured
    proc,     \* runs with a live process
    cache,    \* the last resource measurement of the background refresher
    up,       \* executors that live
    adopted,  \* leases brought back after they had expired
    faults

cvars == <<run, lease, pre, adm, proc, cache, up, adopted, faults>>

None == "none"

RunStates == {"none", "queued", "running", "settling", "done"}

LeaseRow == [st : {"none", "active", "released"}, live : BOOLEAN,
             exec : Executors \cup {None},
             start : {"reserved", "confirmed", "unconfirmed"}]

PreRow == [st : {"none", "active", "released"}, live : BOOLEAN, run : Runs \cup {None}]

AdmRow == [pc : {"idle", "measured", "probing", "accept", "dispatch"},
           run : Runs \cup {None}, avail : Int, seen : SUBSET Runs]

Idle == [pc |-> "idle", run |-> None, avail |-> 0, seen |-> {}]

CapacityTypeOK ==
    /\ run \in [Runs -> RunStates]
    /\ lease \in [Runs -> LeaseRow]
    /\ pre \in [Executors -> PreRow]
    /\ adm \in [Executors -> AdmRow]
    /\ proc \subseteq Runs
    /\ cache \in [avail : 0 .. Memory, running : SUBSET Docker]
    /\ up \subseteq Executors
    /\ adopted \subseteq Runs
    /\ faults \in 0 .. MaxFaults

Init ==
    /\ run = [r \in Runs |-> "none"]
    /\ lease = [r \in Runs |-> [st |-> "none", live |-> FALSE, exec |-> None, start |-> "reserved"]]
    /\ pre = [e \in Executors |-> [st |-> "none", live |-> FALSE, run |-> None]]
    /\ adm = [e \in Executors |-> Idle]
    /\ proc = {}
    /\ cache = [avail |-> Memory, running |-> {}]
    /\ up = Executors
    /\ adopted = {}
    /\ faults = 0

-----------------------------------------------------------------------------
\* What is counted

Need(r) == IF r \in Docker THEN 1 ELSE 0

Needs(R) == Cardinality(R \cap Docker)

Active == {r \in Runs : lease[r].st = "active"}

Unexpired == {r \in Active : lease[r].live}

\* The executors whose preflight reservation counts.
Reserving == {e \in Executors : pre[e].st = "active" /\ pre[e].live}

Preflights(R) == Cardinality({e \in Reserving : pre[e].run \in R})

\* The measured memory covers r: what was free, less what was reserved by leases
\* and reservations the measurement did not see.
Covers(m, r, leases, reservations) ==
    m.avail - Needs(leases \ m.seen) - reservations >= Headroom + Need(r)

\* _assert_preaccept_host_lease_capacity for the admission m of the run r: every
\* unexpired lease and reservation counts.
PreacceptFits(m, r) ==
    /\ \A p \in Pools : r \in p.members =>
          Cardinality((Unexpired \ {r}) \cap p.members) + Preflights(p.members) < p.limit
    /\ Covers(m, r, Unexpired \ {r}, Preflights(Docker))

\* Mutant of AcquireFits: the limits are left to the admission of the delegation.
AcquireFitsMemory(m, r) == Covers(m, r, Active \ {r}, 0)

\* The checks of acquire_host_run_lease: every active lease counts, expired or
\* not, and no preflight reservation does.
AcquireFits(m, r) ==
    /\ \A p \in Pools : r \in p.members => Cardinality(Active \cap p.members) < p.limit
    /\ Covers(m, r, Active \ {r}, 0)

\* Mutant of Measured: the leases that have not started are not deducted.
MeasuredRunning(r) == [avail |-> cache.avail + Needs({r} \cap cache.running), seen |-> Active]

\* _host_resource_capacity_error: the cached measurement, less the reservations
\* of the leased workers that were not running when it was taken (the worker's
\* own use is not held against it), and the leases that were active.
Measured(r) ==
    [avail |-> cache.avail + Needs({r} \cap cache.running)
                 - Needs((Active \ {r}) \ cache.running),
     seen |-> Active]

-----------------------------------------------------------------------------
\* Admission of a new delegation

\* The background refresher of the Docker measurement.  Anything else on the
\* workstation may use memory too.
Refresh ==
    /\ \E a \in 0 .. Memory - Needs(proc) :
          cache' = [avail |-> a, running |-> proc \cap Docker]
    /\ cache' # cache
    /\ UNCHANGED <<run, lease, pre, adm, proc, up, adopted, faults>>

\* The measurement that an admission starts with; pressure refuses it.
Measure(e, r) ==
    /\ e \in up /\ adm[e].pc = "idle"
    /\ run[r] \in {"none", "queued"}
    /\ \* a lease of one's own is used, not measured for
       ~(lease[r].st = "active" /\ lease[r].exec = e)
    /\ LET m == Measured(r) IN
          /\ m.avail >= Headroom + Need(r)
          /\ adm' = [adm EXCEPT ![e] =
                       [pc |-> IF run[r] = "none" THEN "measured" ELSE "dispatch",
                        run |-> r, avail |-> m.avail, seen |-> m.seen]]
    /\ \* a delegation has one submitter
       \A f \in Executors \ {e} : run[r] = "none" => adm[f].run # r
    /\ UNCHANGED <<run, lease, pre, proc, cache, up, adopted, faults>>

\* acquire_preflight_capacity_reservation: expired reservations of everybody are
\* released, and the probe of the runtime runs under a new one or not at all.
AcquirePreflight(e) ==
    /\ e \in up /\ adm[e].pc = "measured"
    /\ LET r == adm[e].run
           swept == [f \in Executors |->
                       IF pre[f].st = "active" /\ ~pre[f].live
                       THEN [pre[f] EXCEPT !.st = "released"] ELSE pre[f]]
       IN  IF PreacceptFits(adm[e], r)
           THEN /\ pre' = [swept EXCEPT ![e] = [st |-> "active", live |-> TRUE, run |-> r]]
                /\ adm' = [adm EXCEPT ![e].pc = "probing"]
           ELSE /\ UNCHANGED pre     \* the refusal rolls the sweep back
                /\ adm' = [adm EXCEPT ![e] = Idle]
    /\ UNCHANGED <<run, lease, proc, cache, up, adopted, faults>>

\* The probe of the runtime ends: the reservation is released, and the delegation
\* goes on only if the reservation was live to the end.
EndPreflight(e) ==
    /\ e \in up /\ adm[e].pc = "probing"
    /\ adm' = [adm EXCEPT ![e] =
                 IF pre[e].st = "active" /\ pre[e].live THEN [@ EXCEPT !.pc = "accept"] ELSE Idle]
    /\ pre' = [pre EXCEPT ![e].st = "released", ![e].live = FALSE]
    /\ UNCHANGED <<run, lease, proc, cache, up, adopted, faults>>

\* Mutant of Reserved: the startup state is left empty.
ReservedBlank(e) == [st |-> "active", live |-> TRUE, exec |-> e, start |-> ""]

Reserved(e) == [st |-> "active", live |-> TRUE, exec |-> e, start |-> "reserved"]

\* reserve_delegation with queue_on_capacity: the run is accepted, with a lease if
\* the measurement of before the preflight still covers it.
ReserveDelegation(e) ==
    /\ e \in up /\ adm[e].pc = "accept"
    /\ LET r == adm[e].run IN
          /\ run' = [run EXCEPT ![r] = "queued"]
          /\ lease' = IF PreacceptFits(adm[e], r)
                      THEN [lease EXCEPT ![r] = Reserved(e)] ELSE lease
    /\ adm' = [adm EXCEPT ![e] = Idle]
    /\ UNCHANGED <<pre, proc, cache, up, adopted, faults>>

-----------------------------------------------------------------------------
\* Admission of a queued run

\* acquire_host_run_lease at the end of a dispatch.  The run may have moved on
\* since it was read.  Another executor's expired reservation of a run that still
\* waits is taken over as it is.
AcquireLease(e) ==
    /\ e \in up /\ adm[e].pc = "dispatch"
    /\ LET r == adm[e].run
           takeover == lease[r].exec # e /\ ~lease[r].live /\ lease[r].start = "reserved"
                       /\ run[r] = "queued"
       IN  \/ /\ lease[r].st = "active" /\ takeover
              /\ lease' = [lease EXCEPT ![r].exec = e, ![r].live = TRUE]
              /\ adopted' = adopted \cup {r}
           \/ /\ lease[r].st # "active" /\ AcquireFits(adm[e], r)
              /\ \* a run with an attempt is admitted only while claimed
                 run[r] \in {"queued", "done"}
              /\ lease' = [lease EXCEPT ![r] = Reserved(e)]
              /\ adopted' = adopted \ {r}
           \/ /\ lease[r].st = "active" => ~takeover
              /\ lease[r].st # "active" =>
                    ~AcquireFits(adm[e], r) \/ run[r] \notin {"queued", "done"}
              /\ UNCHANGED <<lease, adopted>>
    /\ adm' = [adm EXCEPT ![e] = Idle]
    /\ UNCHANGED <<run, pre, proc, cache, up, faults>>

\* The claim, admission and launch of a queued run under an unexpired lease of the
\* executor.  A start that is neither confirmed nor proven gone fences the lease.
Start(e, r, confirmed) ==
    /\ e \in up
    /\ run[r] = "queued"
    /\ lease[r].st = "active" /\ lease[r].live
    /\ lease[r].exec = e /\ lease[r].start = "reserved"
    /\ ~confirmed => faults < MaxFaults
    /\ faults' = IF confirmed THEN faults ELSE faults + 1
    /\ run' = [run EXCEPT ![r] = IF confirmed THEN "running" ELSE "settling"]
    /\ lease' = [lease EXCEPT ![r].start = IF confirmed THEN "confirmed" ELSE "unconfirmed"]
    /\ proc' = proc \cup {r}
    /\ UNCHANGED <<pre, adm, cache, up, adopted>>

Exit(r) ==
    /\ r \in proc
    /\ proc' = proc \ {r}
    /\ UNCHANGED <<run, lease, pre, adm, cache, up, adopted, faults>>

Given(R) ==
    [r \in Runs |-> IF r \in R THEN [lease[r] EXCEPT !.st = "released", !.live = FALSE, !.start = "reserved"]
                               ELSE lease[r]]

\* The processor of a run reports its end; a terminal state releases the lease.
Finish(e, r) ==
    /\ e \in up
    /\ run[r] = "running" /\ r \notin proc
    /\ lease[r].st = "active" /\ lease[r].exec = e
    /\ run' = [run EXCEPT ![r] = "done"]
    /\ lease' = Given({r})
    /\ adopted' = adopted \ {r}
    /\ UNCHANGED <<pre, adm, proc, cache, up, faults>>

\* A queued run is cancelled or expires in the queue.
CancelQueued(r) ==
    /\ run[r] = "queued"
    /\ run' = [run EXCEPT ![r] = "done"]
    /\ lease' = IF lease[r].st = "active" THEN Given({r}) ELSE lease
    /\ adopted' = adopted \ {r}
    /\ UNCHANGED <<pre, adm, proc, cache, up, faults>>

-----------------------------------------------------------------------------
\* Heartbeat and reconciliation

GiveBack(r, s) ==
    /\ lease' = Given({r})
    /\ run' = [run EXCEPT ![r] = s]
    /\ adopted' = adopted \ {r}
    /\ UNCHANGED <<pre, adm, cache, up, faults>>

\* _heartbeat_host_run_leases_once: a lease of the executor that outlived its run
\* is released; every other one is renewed.
Heartbeat(e, r) ==
    /\ e \in up
    /\ lease[r].st = "active" /\ lease[r].exec = e
    /\ run[r] = "done"
    /\ GiveBack(r, "done") /\ UNCHANGED proc

\* reconcile_host_run_leases, for a lease that has expired and
\*   - whose run has ended, or waits without a runtime: it is released;
\*   - whose process is gone, or could not be verified and was stopped: it is
\*     released and the run waits again;
\*   - whose process left the evidence of its end: the run ends.
Reconcile(e, r) ==
    /\ e \in up
    /\ lease[r].st = "active" /\ ~lease[r].live
    /\ \/ run[r] \in {"queued", "done"} /\ GiveBack(r, run[r]) /\ UNCHANGED proc
       \/ run[r] \in {"running", "settling"} /\ GiveBack(r, "queued") /\ proc' = proc \ {r}
       \/ Adopt /\ run[r] = "running" /\ r \notin proc /\ GiveBack(r, "done") /\ UNCHANGED proc

\* reconcile_host_run_leases, for a started lease whose recorded process is
\* verified alive.
Revive(e, r) ==
    /\ Adopt
    /\ e \in up
    /\ lease[r].st = "active" /\ ~lease[r].live
    /\ lease[r].start = "confirmed" /\ run[r] = "running" /\ r \in proc
    /\ lease' = [lease EXCEPT ![r].live = TRUE]
    /\ adopted' = adopted \cup {r}
    /\ UNCHANGED <<run, pre, adm, proc, cache, up, faults>>

\* A deadline passes: always for an executor that died, and for a live one whose
\* heartbeat is late.
ExpireLease(r) ==
    /\ lease[r].st = "active" /\ lease[r].live
    /\ lease[r].exec \in up => faults < MaxFaults
    /\ faults' = IF lease[r].exec \in up THEN faults + 1 ELSE faults
    /\ lease' = [lease EXCEPT ![r].live = FALSE]
    /\ UNCHANGED <<run, pre, adm, proc, cache, up, adopted>>

ExpirePreflight(e) ==
    /\ pre[e].st = "active" /\ pre[e].live
    /\ e \in up => faults < MaxFaults
    /\ faults' = IF e \in up THEN faults + 1 ELSE faults
    /\ pre' = [pre EXCEPT ![e].live = FALSE]
    /\ UNCHANGED <<run, lease, adm, proc, cache, up, adopted>>

\* A service process dies; the processes it launched live on.
Crash(e) ==
    /\ e \in up /\ up # {e}
    /\ faults < MaxFaults
    /\ faults' = faults + 1
    /\ up' = up \ {e}
    /\ adm' = [adm EXCEPT ![e] = Idle]
    /\ UNCHANGED <<run, lease, pre, proc, cache, adopted>>

-----------------------------------------------------------------------------

Next ==
    \/ Refresh
    \/ \E e \in Executors, r \in Runs :
          \/ Measure(e, r)
          \/ \E c \in BOOLEAN : Start(e, r, c)
          \/ Finish(e, r)
          \/ Heartbeat(e, r)
          \/ Reconcile(e, r)
          \/ Revive(e, r)
    \/ \E e \in Executors :
          \/ AcquirePreflight(e)
          \/ EndPreflight(e)
          \/ ReserveDelegation(e)
          \/ AcquireLease(e)
          \/ ExpirePreflight(e)
          \/ Crash(e)
    \/ \E r \in Runs : Exit(r) \/ CancelQueued(r) \/ ExpireLease(r)

CapacitySpec == Init /\ [][Next]_cvars

\* The heartbeat thread of a live executor passes over every lease again and
\* again, and deadlines pass.  That a processor finishes, that a dispatch is
\* retried, that a process ends or can be stopped is not assumed.
FairCapacitySpec ==
    /\ CapacitySpec
    /\ \A e \in Executors, r \in Runs :
          WF_cvars(Heartbeat(e, r)) /\ WF_cvars(r \notin proc /\ Reconcile(e, r))
    /\ \A r \in Runs : WF_cvars(lease[r].exec \notin up /\ ExpireLease(r))

-----------------------------------------------------------------------------
\* Properties

\* No limit is exceeded by admissions: measurements that are stale, preflights
\* that overlap, expired reservations and leases that are not counted any more
\* never add up to more unexpired leases in a pool (a lane, an account, a tenant,
\* a repository) than it allows.  Leases that were brought back after they had
\* expired are left out: they are not admitted anew.
LimitsKept ==
    \A p \in Pools : Cardinality((Unexpired \ adopted) \cap p.members) <= p.limit

\* The reservations of the admitted isolated workers and the headroom fit into
\* the workstation, although each was measured against a cached value.
MemoryKept == Needs(Unexpired \ adopted) + Headroom <= Memory

\* No lane, account, tenant or repository limit is exceeded and the host's memory is never
\* promised twice, although every admission measures before its transaction
\* (acquire_host_run_lease, reserve_preflight_capacity).
AdmittedWithinLimits == LimitsKept /\ MemoryKept

\* One repository, one writer (store.py: "The target repository already has an
\* active host mutation mission."): no limit is exceeded by live processes.
WritersExclusive ==
    \A p \in Pools : Cardinality(proc \cap p.members) <= p.limit

\* The start that could not be confirmed is cleaned up or proven absent at some
\* point (test_host_run_leases.py: "termination_unconfirmed_retries_exact_cleanup
\* _and_requeues_once_proven").
UnconfirmedSettles ==
    \A r \in Runs : run[r] = "settling" /\ r \notin proc ~> run[r] # "settling"

=============================================================================
