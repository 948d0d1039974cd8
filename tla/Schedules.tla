----------------------------- MODULE Schedules ------------------------------
(***************************************************************************)
(* Recurring and one-shot schedules: the tables                            *)
(* recurring_schedule_definitions, recurring_schedule_occurrences and      *)
(* scheduled_runs, the principal's authority, and the threads that call    *)
(* process_due_schedules_once (the scheduler loop, and the administrator's *)
(* run-due request).  Store methods are one transaction each; between two  *)
(* of them a thread holds a snapshot that others may outdate.              *)
(*                                                                         *)
(* One worker.  Time is counted in recurrence intervals.  Of the runs only *)
(* what the schedules see is kept: who holds the worker, whether a queued  *)
(* run was claimed before, and which outcome is written to the schedule in *)
(* the transaction of the run and which in a later one (the whole ledger   *)
(* is HostRuns).                                                           *)
(***************************************************************************)
EXTENDS Naturals, FiniteSets

CONSTANTS
    Definitions,   \* recurring schedules of one owner
    Jobs,          \* one-shot schedules: job n is due at time n
    Tokens,        \* idempotency tokens of run-now requests
    Threads,       \* threads that may process due schedules
    MaxTime,       \* bound on the clock
    Policy,        \* catch_up_policy of the definitions
    Window,        \* max_catch_up_occurrences, for the policy "bounded"
    OverlapSkip,   \* overlap_policy is "skip"
    UserLimit,     \* GLASSHIVE_MAX_CONCURRENT_RECURRING_RUNS_PER_USER
    MaxEvents      \* bound on changes of a definition, re-enabled principals, crashes,
                   \* expired claims, failed dispatches, and on runs that are requeued, wait
                   \* or are stopped

ASSUME ScheduleAssumption ==
    /\ MaxTime \in Nat \ {0} /\ Jobs \subseteq 1 .. MaxTime /\ Tokens \subseteq Nat
    /\ Policy \in {"coalesce", "skip", "bounded"}
    /\ Window \in Nat \ {0} /\ UserLimit \in Nat \ {0} /\ MaxEvents \in Nat
    /\ OverlapSkip \in BOOLEAN

VARIABLES
    now,       \* the clock
    defs,      \* recurring_schedule_definitions
    row,       \* scheduled_runs
    occ,       \* recurring_schedule_occurrences, by the schedule they belong to
    run,       \* the run of a schedule: its id is derived from the schedule's
    enabled,   \* schedule_principal_authority
    workspace, \* the worker is open, terminating or terminated
    thread,    \* the threads inside process_due_schedules_once
    edit,      \* an update of a definition between its read and its write
    owed,      \* outcomes of runs on their way to the schedule
    events     \* what MaxEvents bounds, so far

svars == <<now, defs, row, occ, run, enabled, workspace, thread, edit, owed, events>>

-----------------------------------------------------------------------------
Times == 1 .. MaxTime
Occurrences == [kind : {"occurrence"}, of : Definitions, at : Times]
Manuals == [kind : {"manual"}, of : Definitions, at : Tokens]
OneShots == [kind : {"job"}, of : {"none"}, at : Jobs]
Schedules == Occurrences \cup Manuals \cup OneShots
NoSchedule == [kind |-> "none", of |-> "none", at |-> 0]

DefRow == [st : {"none", "active", "inactive"}, next : 0 .. MaxTime + 1, retired : BOOLEAN]

RowEnd == {"completed", "failed", "cancelled"}
RowStates == {"none", "pending", "running", "queued", "needs_input"} \cup RowEnd
OccEnd == RowEnd \cup {"skipped"}
OccStates ==
    {"none", "pending", "claimed", "retryable", "queued", "needs_input", "action_required"}
        \cup OccEnd
\* A queued run is "again" when it was claimed before; "claimed" includes admitted,
\* "running" includes settling, "failed" includes interrupted.
Queued == {"queued", "again"}
Holding == {"claimed", "running", "paused", "needs_input"}
RunStates == {"none"} \cup Queued \cup Holding \cup RowEnd
Outcomes == Schedules \X {"failed", "needs_input"}

Decisions == {"none", "pending", "skipped", "action_required"}
Idle == [pc |-> "idle", s |-> NoSchedule, to |-> 0, exp |-> 0, decision |-> "none"]
ThreadRow ==
    [pc : {"idle", "plan", "decided", "listed", "defer", "claim", "claimed", "checked",
           "assigned"},
     s : Schedules \cup {NoSchedule}, to : 0 .. MaxTime, exp : 0 .. MaxTime + 1,
     decision : Decisions]
NoEdit == [of |-> "none", next |-> 0, active |-> FALSE]

SchedTypeOK ==
    /\ now \in 0 .. MaxTime
    /\ defs \in [Definitions -> DefRow]
    /\ row \in [Schedules -> [st : RowStates, linked : BOOLEAN]]
    /\ occ \in [Schedules -> [st : OccStates, lease : BOOLEAN]]
    /\ run \in [Schedules -> RunStates]
    /\ enabled \in BOOLEAN /\ workspace \in {"open", "closing", "closed"}
    /\ thread \in [Threads -> ThreadRow]
    /\ edit \in [of : Definitions \cup {"none"}, next : 0 .. MaxTime + 1, active : BOOLEAN]
    /\ owed \subseteq Outcomes
    /\ events \in 0 .. MaxEvents

SchedInit ==
    /\ now = 0
    /\ defs = [d \in Definitions |-> [st |-> "none", next |-> 0, retired |-> FALSE]]
    /\ row = [s \in Schedules |-> [st |-> "none", linked |-> FALSE]]
    /\ occ = [s \in Schedules |-> [st |-> "none", lease |-> FALSE]]
    /\ run = [s \in Schedules |-> "none"]
    /\ enabled = TRUE /\ workspace = "open"
    /\ thread = [p \in Threads |-> Idle]
    /\ edit = NoEdit
    /\ owed = {}
    /\ events = 0

Open == workspace = "open"

Tick ==
    /\ now < MaxTime /\ now' = now + 1
    /\ UNCHANGED <<defs, row, occ, run, enabled, workspace, thread, edit, owed, events>>

-----------------------------------------------------------------------------
\* Writes shared by the handlers

Event == events < MaxEvents /\ events' = events + 1

\* The occurrence of s, unless it has already ended.
MoveOcc(s, st, lease) ==
    occ' = [occ EXCEPT ![s] = IF @.st \in OccEnd \cup {"none"} THEN @
                              ELSE [st |-> st, lease |-> lease]]

\* finalize_schedule: the link to the run is erased.
FinalizeSchedule(s, st) ==
    /\ row' = [row EXCEPT ![s] = IF @.st \in RowEnd THEN @ ELSE [st |-> st, linked |-> FALSE]]
    /\ MoveOcc(s, st, FALSE)

\* finalize_schedule_for_run, and its twin inside the transaction that ends a run.
FinalizeForRun(s, st) ==
    /\ row' = [row EXCEPT ![s].st = IF row[s].linked /\ @ \in {"queued", "running"} THEN st ELSE @]
    /\ IF row[s].linked THEN MoveOcc(s, st, FALSE) ELSE UNCHANGED occ

\* list_active_runs, count_active_runs: a claimed run is not counted.
ActiveRuns == {s \in Schedules : run[s] \in Queued \cup {"running"}}

Sleep(p) == thread' = [thread EXCEPT ![p] = Idle]

-----------------------------------------------------------------------------
\* The owner's requests

\* create_recurring_schedule_definition; the first occurrence is one interval away.
CreateDefinition(d) ==
    /\ defs[d].st = "none" /\ Open /\ enabled /\ now < MaxTime
    /\ defs' = [defs EXCEPT ![d] = [st |-> "active", next |-> now + 1, retired |-> FALSE]]
    /\ UNCHANGED <<now, row, occ, run, enabled, workspace, thread, edit, owed, events>>

\* deactivate_recurring_schedule_definition, retire_recurring_schedule_definition.
Deactivate(d, retire) ==
    /\ Event
    /\ defs[d].st # "none"
    /\ defs' = [defs EXCEPT ![d].st = "inactive", ![d].retired = @ \/ retire]
    /\ UNCHANGED <<now, row, occ, run, enabled, workspace, thread, edit, owed>>

\* update_recurring_schedule: the definition is read, merged and normalised ...
BeginUpdate(d) ==
    /\ Event
    /\ edit.of = "none" /\ defs[d].st # "none" /\ ~defs[d].retired
    /\ \E on \in BOOLEAN :
        edit' = [of |-> d, active |-> on,
                 next |-> IF on /\ defs[d].st = "inactive" /\ now < MaxTime
                          THEN now + 1 ELSE defs[d].next]
    /\ UNCHANGED <<now, defs, row, occ, run, enabled, workspace, thread, owed>>

\* ... and written back whole, next_run_at included, if enabling it is allowed.
FinishUpdate ==
    LET d == edit.of IN
    /\ d # "none"
    /\ edit' = NoEdit
    /\ defs' = IF edit.active => Open /\ enabled
               THEN [defs EXCEPT ![d].next = edit.next,
                                 ![d].st = IF edit.active THEN "active" ELSE "inactive"]
               ELSE defs
    /\ UNCHANGED <<now, row, occ, run, enabled, workspace, thread, owed, events>>

\* create_recurring_schedule_run_now, create_scheduled_run.
Submit(s) ==
    /\ s.kind # "occurrence" /\ row[s].st = "none" /\ Open /\ enabled
    /\ s.kind = "manual" => defs[s.of].st # "none" /\ ~defs[s.of].retired
    /\ row' = [row EXCEPT ![s].st = "pending"]
    /\ occ' = IF s.kind = "manual" THEN [occ EXCEPT ![s].st = "pending"] ELSE occ
    /\ UNCHANGED <<now, defs, run, enabled, workspace, thread, edit, owed, events>>

\* set_schedule_principal_authority.
Enable ==
    /\ Event
    /\ ~enabled /\ enabled' = TRUE
    /\ UNCHANGED <<now, defs, row, occ, run, workspace, thread, edit, owed>>

\* What disabling ends: a schedule without a run, or with one that nobody holds.
Retired(s) ==
    /\ row[s].st \notin RowEnd \cup {"none"}
    /\ row[s].linked => run[s] \in Queued

StopDefinitions ==
    defs' = [d \in Definitions |->
                IF defs[d].st = "active" THEN [defs[d] EXCEPT !.st = "inactive"] ELSE defs[d]]

Disable ==
    /\ enabled /\ enabled' = FALSE
    /\ StopDefinitions
    /\ run' = [s \in Schedules |->
                IF Retired(s) /\ row[s].linked THEN "cancelled" ELSE run[s]]
    /\ row' = [s \in Schedules |->
                IF Retired(s) THEN [row[s] EXCEPT !.st = "cancelled"] ELSE row[s]]
    /\ occ' = [s \in Schedules |->
                IF Retired(s) /\ occ[s].st \notin OccEnd \cup {"none"}
                THEN [occ[s] EXCEPT !.st = "action_required"] ELSE occ[s]]
    /\ UNCHANGED <<now, workspace, thread, edit, owed, events>>

\* Mutant of ClosedOccurrence: an occurrence that is being dispatched is left alone.
ClosedOccurrenceIdle(st) == IF st \in OccEnd \cup {"none", "claimed"} THEN st ELSE "cancelled"

\* What the closing of the workspace makes of an occurrence.
ClosedOccurrence(st) == IF st \in OccEnd \cup {"none"} THEN st ELSE "cancelled"

\* begin_worker_termination: every schedule of the workspace ends with it.
CloseWorker ==
    /\ Open /\ workspace' = "closing"
    /\ StopDefinitions
    /\ row' = [s \in Schedules |->
                IF row[s].st \in RowEnd \cup {"none"} THEN row[s]
                ELSE [row[s] EXCEPT !.st = "cancelled"]]
    /\ occ' = [s \in Schedules |-> [occ[s] EXCEPT !.st = ClosedOccurrence(@)]]
    /\ UNCHANGED <<now, run, enabled, thread, edit, owed, events>>

-----------------------------------------------------------------------------
\* _materialize_due_recurring_schedules

\* list_due_recurring_schedule_definitions and due_occurrences_and_next: the latest
\* due time, preceded by the missed ones that the policy catches up with.
Plan(p, d) ==
    LET first == IF Policy = "bounded" /\ defs[d].next + Window <= now
                 THEN now + 1 - Window
                 ELSE IF Policy = "bounded" THEN defs[d].next ELSE now
    IN
    /\ thread[p].pc = "idle"
    /\ defs[d].st = "active" /\ defs[d].next <= now
    /\ thread' = [thread EXCEPT ![p] =
            [Idle EXCEPT !.pc = "plan", !.to = now, !.exp = defs[d].next,
                         !.s = [kind |-> "occurrence", of |-> d, at |-> first]]]
    /\ UNCHANGED <<now, defs, row, occ, run, enabled, workspace, edit, owed, events>>

\* The misfire grace, the overlap check and _revalidate_recurring_schedule_fire.
\* An account or a connection may need the user's attention at any time.
Decide(p) ==
    /\ thread[p].pc = "plan"
    /\ \E decision \in Decisions \ {"none"} :
        /\ \/ decision = "skipped" /\ (Policy = "skip" \/ (OverlapSkip /\ ActiveRuns # {}))
           \/ decision = "action_required" /\ (OverlapSkip => ActiveRuns = {})
           \/ decision = "pending" /\ (OverlapSkip => ActiveRuns = {}) /\ enabled /\ Open
        /\ thread' = [thread EXCEPT ![p].pc = "decided", ![p].decision = decision]
    /\ UNCHANGED <<now, defs, row, occ, run, enabled, workspace, edit, owed, events>>

\* Mutant of Following: the interval is added twice.
FollowingTwice(at) == at + 2

\* The occurrence after the one at the given time.
Following(at) == at + 1

\* materialize_recurring_schedule_occurrence: a compare-and-set on next_run_at that
\* inserts the occurrence and its scheduled run and advances the definition.
Materialize(p) ==
    LET me == thread[p]
        d == me.s.of
        following == Following(me.s.at)
        fresh == /\ row[me.s].st = "none"
                 /\ defs[d].st = "active" /\ defs[d].next = me.exp
    IN
    /\ me.pc = "decided"
    /\ row' = [row EXCEPT ![me.s].st =
                IF ~fresh THEN @
                ELSE IF me.decision = "pending" THEN "pending"
                ELSE IF me.decision = "skipped" THEN "cancelled" ELSE "failed"]
    /\ occ' = [occ EXCEPT ![me.s].st = IF fresh THEN me.decision ELSE @]
    /\ defs' = IF fresh
               THEN [defs EXCEPT ![d].next = following,
                        ![d].st = IF me.decision = "action_required" THEN "inactive" ELSE @]
               ELSE defs
    /\ thread' = [thread EXCEPT ![p] =
            IF me.decision = "action_required" \/ me.s.at = me.to THEN Idle
            ELSE [me EXCEPT !.pc = "plan", !.s.at = following, !.exp = following,
                            !.decision = "none"]]
    /\ UNCHANGED <<now, run, enabled, workspace, edit, owed, events>>

-----------------------------------------------------------------------------
\* Dispatch of the due scheduled runs

\* Mutant of Reclaimed: only the occurrence is given back.
ReclaimedOccurrence(st) == st

\* The scheduled run of a claim that expired.
Reclaimed(st) == IF st = "running" THEN "pending" ELSE st

\* recover_stale_recurring_occurrence_claims: a claim expires when its thread died,
\* or is slower than the claim lasts.
Recover(p, s) ==
    /\ thread[p].pc = "idle"
    /\ occ[s].st = "claimed" /\ occ[s].lease /\ ~row[s].linked
    /\ IF \E q \in Threads : thread[q].s = s
       THEN Event
       ELSE UNCHANGED events
    /\ occ' = [occ EXCEPT ![s] = [st |-> "retryable", lease |-> FALSE]]
    /\ row' = [row EXCEPT ![s].st = Reclaimed(@)]
    /\ UNCHANGED <<now, defs, run, enabled, workspace, thread, edit, owed>>

\* list_due_schedules; what follows is done for each row of the list.
List(p, s) ==
    /\ thread[p].pc = "idle" /\ row[s].st = "pending"
    /\ s.kind = "job" => s.at <= now
    /\ thread' = [thread EXCEPT ![p] = [Idle EXCEPT !.pc = "listed", !.s = s]]
    /\ UNCHANGED <<now, defs, row, occ, run, enabled, workspace, edit, owed, events>>

\* _recurring_schedule_capacity_issue: one-shot schedules have no limit.
Weigh(p) ==
    LET busy == thread[p].s.kind # "job" /\ Cardinality(ActiveRuns) >= UserLimit IN
    /\ thread[p].pc = "listed"
    /\ thread' = [thread EXCEPT ![p].pc = IF busy THEN "defer" ELSE "claim"]
    /\ UNCHANGED <<now, defs, row, occ, run, enabled, workspace, edit, owed, events>>

\* mark_recurring_occurrence_retryable.
Defer(p) ==
    /\ thread[p].pc = "defer"
    /\ MoveOcc(thread[p].s, "retryable", FALSE)
    /\ Sleep(p)
    /\ UNCHANGED <<now, defs, row, run, enabled, workspace, edit, owed, events>>

\* claim_schedule.
ClaimSchedule(p) ==
    LET s == thread[p].s IN
    /\ thread[p].pc = "claim"
    /\ \/ /\ row[s].st # "pending"
          /\ Sleep(p) /\ UNCHANGED <<row, occ>>
       \/ /\ row[s].st = "pending"
          /\ s.kind # "job" /\ OverlapSkip /\ ActiveRuns # {}
          /\ row' = [row EXCEPT ![s].st = "cancelled"]
          /\ MoveOcc(s, "skipped", FALSE)
          /\ Sleep(p)
       \/ /\ row[s].st = "pending"
          /\ ~(s.kind # "job" /\ OverlapSkip /\ ActiveRuns # {})
          /\ row' = [row EXCEPT ![s].st = "running"]
          /\ MoveOcc(s, "claimed", TRUE)
          /\ thread' = [thread EXCEPT ![p].pc = "claimed"]
    /\ UNCHANGED <<now, defs, run, enabled, workspace, edit, owed, events>>

\* assign_scheduled_run up to the store: authority, ownership, provider account and
\* runtime are checked; an authority error leaves the row as it is, any other
\* failure ends the schedule.
Revalidate(p) ==
    LET s == thread[p].s IN
    /\ thread[p].pc = "claimed"
    /\ \/ enabled /\ Open
            /\ thread' = [thread EXCEPT ![p].pc = "checked"] /\ UNCHANGED <<row, occ>>
       \/ enabled /\ Sleep(p) /\ FinalizeSchedule(s, "failed")
       \/ ~enabled /\ Sleep(p) /\ UNCHANGED <<row, occ>>
    /\ UNCHANGED <<now, defs, run, enabled, workspace, edit, owed, events>>

\* Mutant of Dispatchable: the claim of before is trusted.
DispatchableAny(s) == TRUE

\* The row is still claimed when its run is made.
Dispatchable(s) == row[s].st = "running"

\* Mutant of Dispatched: queued_run_id is not written.
DispatchedUnlinked == [st |-> "queued", linked |-> FALSE]

Dispatched == [st |-> "queued", linked |-> TRUE]

\* create_or_get_run_for_schedule: the run and the link to it in one transaction.
AssignRun(p) ==
    LET s == thread[p].s IN
    /\ thread[p].pc = "checked"
    /\ \/ /\ ~enabled
          /\ Sleep(p) /\ UNCHANGED <<row, occ, run>>
       \/ /\ enabled /\ row[s].linked
          /\ thread' = [thread EXCEPT ![p].pc = "assigned"] /\ UNCHANGED <<row, occ, run>>
       \/ /\ enabled /\ ~row[s].linked /\ ~Dispatchable(s)
          /\ FinalizeSchedule(s, "failed") /\ Sleep(p) /\ UNCHANGED run
       \/ /\ enabled /\ ~row[s].linked /\ Dispatchable(s) /\ ~Open
          /\ FinalizeSchedule(s, "cancelled") /\ Sleep(p) /\ UNCHANGED run
       \/ /\ enabled /\ ~row[s].linked /\ Dispatchable(s) /\ Open
          /\ FinalizeSchedule(s, "failed") /\ Sleep(p) /\ UNCHANGED run
       \/ /\ enabled /\ ~row[s].linked /\ Dispatchable(s) /\ Open
          /\ run' = [run EXCEPT ![s] = IF @ = "none" THEN "queued" ELSE @]
          /\ row' = [row EXCEPT ![s] = Dispatched]
          /\ MoveOcc(s, "queued", FALSE)
          /\ thread' = [thread EXCEPT ![p].pc = "assigned"]
    /\ UNCHANGED <<now, defs, enabled, workspace, edit, owed, events>>

\* A run that has already ended, or was paused, settles its schedule here as well; an
\* error after the run was made (an event, a callback, the processor) unlinks it.
Observe(p) ==
    LET s == thread[p].s IN
    /\ thread[p].pc = "assigned"
    /\ Sleep(p)
    /\ \/ /\ run[s] \in RowEnd \cup {"paused"}
          /\ FinalizeForRun(s, IF run[s] = "paused" THEN "failed" ELSE run[s])
          /\ UNCHANGED events
       \/ run[s] \notin RowEnd \cup {"paused"} /\ UNCHANGED <<row, occ, events>>
       \/ Event /\ FinalizeSchedule(s, "failed")
    /\ UNCHANGED <<now, defs, run, enabled, workspace, edit, owed>>

-----------------------------------------------------------------------------
\* The runs of the schedules

SetRun(s, st) == run' = [run EXCEPT ![s] = st]
Ended(st) == st \in RowEnd \cup {"none"}

\* _claim_next_queued_run_parallel: the principal's authority is not asked for.
ClaimRun(s) ==
    /\ run[s] \in Queued /\ workspace # "closed"
    /\ \A q \in Schedules : run[q] \notin Holding
    /\ SetRun(s, "claimed")
    /\ UNCHANGED <<now, defs, row, occ, enabled, workspace, thread, edit, owed, events>>

\* mark_run_runtime_invoked.
InvokeRun(s) ==
    /\ run[s] = "claimed"
    /\ SetRun(s, "running")
    /\ UNCHANGED <<now, defs, row, occ, enabled, workspace, thread, edit, owed, events>>

\* _requeue_run_for_retry_parallel: a capacity wait, a retryable failure, a lost start.
Requeue(s) ==
    /\ Event
    /\ run[s] \in {"claimed", "running"} /\ Open
    /\ SetRun(s, "again")
    /\ UNCHANGED <<now, defs, row, occ, enabled, workspace, thread, edit, owed>>

\* mark_run_needs_input and the pause of the worker: the run's transaction leaves the
\* schedule alone, and what the thread will tell it is a failure if the run is paused.
Wait(s, st) ==
    /\ Event
    /\ run[s] \in {"claimed", "running"}
    /\ SetRun(s, st)
    /\ owed' = owed \cup {<<s, IF st = "paused" THEN "failed" ELSE st>>}
    /\ UNCHANGED <<now, defs, row, occ, enabled, workspace, thread, edit>>

\* expire_queued_run_if_due; the schedule is told later here as well.
Expire(s) ==
    /\ run[s] \in Queued
    /\ SetRun(s, "failed")
    /\ owed' = owed \cup {<<s, "failed">>}
    /\ UNCHANGED <<now, defs, row, occ, enabled, workspace, thread, edit, events>>

\* finalize_schedule_for_run, in a transaction of its own.
Tell(o) ==
    /\ o \in owed /\ owed' = owed \ {o}
    /\ FinalizeForRun(o[1], o[2])
    /\ UNCHANGED <<now, defs, run, enabled, workspace, thread, edit, events>>

\* finalize_worker_run_control_claim, resume_needs_input_active_work_action.
Resume(s, st) ==
    /\ Open
    /\ \/ run[s] = "paused" /\ st \in {"running", "again"}
       \/ run[s] = "needs_input" /\ st = "again"
    /\ SetRun(s, st)
    /\ UNCHANGED <<now, defs, row, occ, enabled, workspace, thread, edit, owed, events>>

\* _finalize_run_if_state_parallel, settle_run_if_current.
EndRun(s, st) ==
    /\ ~Ended(run[s]) /\ (st = "completed" => run[s] = "running")
    /\ SetRun(s, st)
    /\ FinalizeForRun(s, st)
    /\ UNCHANGED <<now, defs, enabled, workspace, thread, edit, owed, events>>

\* What a run that was too long, a Stop or a termination make of a row: a failure is
\* relabelled, and the occurrence is left as it is.
StoppedRow(st) == IF st \in {"none", "completed", "cancelled"} THEN st ELSE "cancelled"

\* finalize_worker_operation_claim for max_duration.
LimitRun(s) ==
    /\ Event
    /\ run[s] = "running"
    /\ SetRun(s, "cancelled")
    /\ row' = [row EXCEPT ![s].st = IF row[s].linked THEN StoppedRow(@) ELSE @]
    /\ UNCHANGED <<now, defs, occ, enabled, workspace, thread, edit, owed>>

\* finalize_worker_work_stop_claim, finalize_worker_termination_claim: every schedule of
\* the worker, also one that is not due yet.
CancelWork ==
    /\ run' = [s \in Schedules |-> IF Ended(run[s]) THEN run[s] ELSE "cancelled"]
    /\ row' = [s \in Schedules |-> [row[s] EXCEPT !.st = StoppedRow(@)]]
    /\ UNCHANGED <<now, defs, occ, enabled, thread, edit, owed>>
StopWork == Open /\ Event /\ CancelWork /\ UNCHANGED workspace
EndWorker == workspace = "closing" /\ workspace' = "closed" /\ CancelWork /\ UNCHANGED events

\* cancel_pending_runs, when a launch failed or the worker is closed without a claim: only
\* queued and running runs end, and the rows of all that had not ended.
CancelPending ==
    LET st == IF Open THEN "failed" ELSE "cancelled" IN
    /\ workspace # "closed" /\ Event
    /\ run' = [s \in Schedules |-> IF s \in ActiveRuns THEN st ELSE run[s]]
    /\ row' = [s \in Schedules |->
                IF row[s].linked /\ ~Ended(run[s]) /\ row[s].st = "queued"
                THEN [row[s] EXCEPT !.st = st] ELSE row[s]]
    /\ UNCHANGED <<now, defs, occ, enabled, workspace, thread, edit, owed>>

Crash ==
    /\ Event
    /\ thread' = [p \in Threads |-> Idle]
    /\ edit' = NoEdit /\ owed' = {}
    /\ UNCHANGED <<now, defs, row, occ, run, enabled, workspace>>

-----------------------------------------------------------------------------
OwnerStep ==
    \/ \E d \in Definitions : CreateDefinition(d) \/ BeginUpdate(d)
    \/ \E d \in Definitions, retire \in BOOLEAN : Deactivate(d, retire)
    \/ \E s \in Manuals \cup OneShots : Submit(s)
    \/ FinishUpdate \/ Enable \/ Disable \/ CloseWorker

SchedulerStep(p) ==
    \/ \E d \in Definitions : Plan(p, d)
    \/ \E s \in Schedules : Recover(p, s) \/ List(p, s)
    \/ Decide(p) \/ Materialize(p)
    \/ Weigh(p) \/ Defer(p) \/ ClaimSchedule(p)
    \/ Revalidate(p) \/ AssignRun(p) \/ Observe(p)

RunStep ==
    \/ \E s \in Schedules :
        \/ ClaimRun(s) \/ InvokeRun(s) \/ Requeue(s) \/ Expire(s) \/ LimitRun(s)
        \/ \E st \in {"paused", "needs_input"} : Wait(s, st)
        \/ \E st \in {"running", "again"} : Resume(s, st)
        \/ \E st \in RowEnd : EndRun(s, st)
    \/ \E o \in owed : Tell(o)
    \/ StopWork \/ EndWorker \/ CancelPending

SchedNext ==
    \/ Tick
    \/ OwnerStep
    \/ \E p \in Threads : SchedulerStep(p)
    \/ RunStep
    \/ Crash

SchedSpec == SchedInit /\ [][SchedNext]_svars

\* The loop passes over all claims, definitions and due rows again and again, so a
\* row that is due in every pass is visited.  A queued run is claimed or its deadline
\* passes; one that is claimed over and over ends, since the deadline of a wait and the
\* retry budget are kept when it is requeued.  Nothing forces the clock, the owner (who
\* may never answer a run that waits), or a fault.
Abandoned(s) == \A q \in Threads : thread[q].s # s
SchedFairness ==
    /\ \A p \in Threads :
        /\ WF_svars(Decide(p) \/ Materialize(p) \/ Weigh(p) \/ Defer(p) \/ ClaimSchedule(p)
                    \/ Revalidate(p) \/ AssignRun(p) \/ Observe(p))
        /\ \A s \in Schedules : SF_svars(List(p, s) \/ (Abandoned(s) /\ Recover(p, s)))
    /\ \A s \in Schedules :
        /\ WF_svars(ClaimRun(s) \/ Expire(s))
        /\ SF_svars(run[s] \in {"claimed", "running"} /\ \E st \in RowEnd : EndRun(s, st))

FairSchedSpec == SchedSpec /\ SchedFairness

-----------------------------------------------------------------------------
\* Properties

\* A schedule that was settled (cancelled with its workspace or principal, failed by a
\* pass, recovered and run by another) is never dispatched afterwards, however old the
\* claim of the thread that dispatches it (create_or_get_run_for_schedule).  It stays
\* settled; only a failure may be relabelled, by the Stop that cancels all rows.
SettledNotDispatched ==
    [][\A s \in Schedules : row[s].st \in RowEnd =>
        /\ row'[s].st = row[s].st \/ (row[s].st = "failed" /\ row'[s].st = "cancelled")
        /\ run[s] = "none" => run'[s] = "none"]_svars

\* The row of a dispatch that failed after its run was made: it names no run any more.
Unlinked == [st |-> "failed", linked |-> FALSE]

\* In an open workspace a run that was never claimed is claimed only for a schedule that
\* is dispatched and whose principal is enabled.  The claim asks for neither
\* (_claim_next_queued_run_parallel): it holds because whatever settles the schedule or
\* disables the principal finds the queued run through the link.  A failed dispatch
\* erases the link, and so does, with a second thread, a claim that expires under a
\* slow one.
FirstClaimIsDue ==
    [][\A s \in Schedules :
        run[s] = "queued" /\ run'[s] = "claimed" /\ Open =>
            (enabled /\ row[s].st = "queued") \/ row[s] = Unlinked]_svars

\* What ended does not start: neither a settled schedule (create_or_get_run_for_schedule)
\* nor the run that a disabled principal (set_schedule_principal_authority) had waiting.
EndedStaysEnded == SettledNotDispatched /\ FirstClaimIsDue

\* Does not hold, although disabling is to "atomically gate future fires and retire
\* already-materialized native work": a run that is held at that moment is spared, and
\* once it is requeued or resumed the next claim starts it again.
DisabledNeverClaimed ==
    [][\A s \in Schedules : run[s] \in Queued /\ run'[s] = "claimed" => enabled]_svars

\* A retired definition does not fire again ("retired schedule cannot be changed").
RetiredIsQuiet == \A d \in Definitions : defs[d].retired => defs[d].st = "inactive"

\* A claimed recurring schedule is run or settled, also when the process that claimed
\* it died before the run was created (recover_stale_recurring_occurrence_claims).
ClaimResolves ==
    \A s \in Schedules \ OneShots :
        row[s].st = "running" ~> row[s].st \in RowEnd \/ run[s] # "none"

\* The same for one-shot schedules ("leaving the row in `running` strands one-shot
\* work forever").
OneShotResolves ==
    \A s \in OneShots :
        row[s].st = "running" ~> row[s].st \in RowEnd \/ run[s] # "none"
=============================================================================
