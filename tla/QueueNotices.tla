---------------------------- MODULE QueueNotices ----------------------------
(* What a user is told while a run waits for admission.  Every continuous wait has a generation
   with a deadline: a processor that must put the run back announces the wait once (the
   transition), the scheduler's pass repeats that it goes on (refreshes, numbered) and ends it
   at its deadline with the run's terminal callback.  Only the invocation of the runtime or the
   end of the run closes a wait.

   A pass takes the time once, reads the due rows and composes each callback from the row it has
   read, then compares and sets it in a transaction; passes of two service processes, processors
   and users move the run in between.  Deadlines and refresh times are numbered: a time is equal
   to what was read if its number is.  One run stands for all.                                 *)
EXTENDS Naturals, Sequences

CONSTANTS Passes,       \* scheduler passes, one for each service process
          MaxAttempts,  \* bound on claims
          MaxWaits,     \* bound on generations
          MaxRefreshes  \* bound on the refreshes of a generation

VARIABLES run,     \* the run's row: state, attempt, and the columns of its wait
          late,    \* the deadline of the current wait has passed
          due,     \* the time of the next refresh has come
          pass,    \* each pass: place, the times that had come when it began, the row it has read
          telling, \* the rows that processors have put back and will announce
          sink,    \* the workspace has a callback
          log      \* the callback rows of the run, in the order of their commits

queueVars == <<run, late, due, pass, telling, sink, log>>

None == 0
Waiting == {"queued", "claimed", "running"}
NoRow == [gen |-> None]
IdlePass == [pc |-> "idle", late |-> None, due |-> None, row |-> NoRow]

QueueInit ==
    /\ run = [st |-> "queued", att |-> 0, open |-> TRUE, gen |-> 1, deadline |-> 1, next |-> 1, times |-> 1,
              sent |-> FALSE, seq |-> 0, cb |-> "unknown"]
    /\ late = FALSE /\ due = FALSE
    /\ pass = [p \in Passes |-> IdlePass] /\ telling = {}
    /\ sink \in BOOLEAN /\ log = <<>>

PassAt(p, pc) == pass[p].pc = pc
Go(p, pc) == pass' = [pass EXCEPT ![p].pc = pc, ![p].row = NoRow]
ReadRow(p, pc) == pass' = [pass EXCEPT ![p].pc = pc, ![p].row = run]
Abort(p) == pass' = [pass EXCEPT ![p] = IdlePass]

-----------------------------------------------------------------------------
\* The wait

\* A new generation, if the last one is over; a wait that goes on keeps its notices.
Reopened(r) ==
    IF r.open THEN [r EXCEPT !.st = "queued"]
    ELSE [r EXCEPT !.st = "queued", !.open = TRUE, !.gen = @ + 1, !.deadline = r.times + 1, !.next = r.times + 1,
                   !.times = @ + 1, !.sent = FALSE, !.seq = 0, !.cb = "unknown"]

\* _downgrade_unproven_running_conn gives the new wait no time for a refresh and keeps the marks
\* of the last one.
Downgraded(r) == [r EXCEPT !.st = "queued", !.open = TRUE, !.gen = @ + 1, !.deadline = r.times + 1,
                         !.times = @ + 1, !.next = None]

\* The invocation and the trigger on terminal states close it.
Closed(r, st) == [r EXCEPT !.st = st, !.open = FALSE, !.next = None]

Fresh == late' = FALSE /\ due' = FALSE

ClaimWaiting ==
    /\ run.st = "queued" /\ run.att < MaxAttempts
    /\ run' = [run EXCEPT !.st = "claimed", !.att = @ + 1]
    /\ UNCHANGED <<late, due, pass, telling, sink, log>>

\* confirm_host_run_start: not after the deadline
InvokeRun ==
    /\ run.st = "claimed" /\ run.open /\ ~late
    /\ run' = Closed(run, "running")
    /\ UNCHANGED <<late, due, pass, telling, sink, log>>

\* requeue_run_for_retry, after a refused admission or a retryable failure; whoever put the run
\* back announces the wait unless that was done.
Requeue ==
    /\ run.st \in {"claimed", "running"}
    /\ run.open \/ run.gen < MaxWaits
    /\ run' = Reopened(run)
    /\ IF run.open THEN UNCHANGED <<late, due>> ELSE Fresh
    /\ telling' = telling \cup IF run'.sent THEN {} ELSE {run'}
    /\ UNCHANGED <<pass, sink, log>>

Downgrade ==
    /\ run.st = "running" /\ run.gen < MaxWaits
    /\ run' = Downgraded(run) /\ Fresh
    /\ UNCHANGED <<pass, telling, sink, log>>

\* The run asks for a grant and is resumed with it.
NeedsInput ==
    /\ run.st = "running"
    /\ run' = [run EXCEPT !.st = "needs_input"]
    /\ UNCHANGED <<late, due, pass, telling, sink, log>>

ResumeGranted ==
    /\ run.st = "needs_input" /\ run.gen < MaxWaits
    /\ run' = Reopened(run) /\ Fresh
    /\ UNCHANGED <<pass, telling, sink, log>>

End ==
    /\ run.st \in Waiting \cup {"needs_input"}
    /\ run' = Closed(run, "ended")
    /\ UNCHANGED <<late, due, pass, telling, sink, log>>

DeadlinePasses ==
    /\ run.open /\ ~late /\ late' = TRUE
    /\ UNCHANGED <<run, due, pass, telling, sink, log>>

RefreshComes ==
    /\ run.open /\ run.next # None /\ ~due /\ run.seq < MaxRefreshes /\ due' = TRUE
    /\ UNCHANGED <<run, late, pass, telling, sink, log>>

\* force_queue_deadline_for_local_qa moves both times of the wait to now.
ForceDeadline ==
    /\ run.st = "claimed" /\ run.open /\ ~late
    /\ run' = [run EXCEPT !.deadline = run.times + 1, !.next = run.times + 1, !.times = @ + 1]
    /\ late' = TRUE /\ due' = TRUE
    /\ UNCHANGED <<pass, telling, sink, log>>

-----------------------------------------------------------------------------
\* Notices

\* Mutant of SameWait: the wait may be over.
SameWaitOfRow(row) == run.gen = row.gen /\ run.deadline = row.deadline

\* The wait is still open and is the one of the row: generation and deadline
SameWait(row) ==
    run.st \in Waiting /\ run.open /\ run.gen = row.gen /\ run.deadline = row.deadline

\* _prepare_callback_intent_conn: the callback was composed for the attempt that the run is in.
Composed(row) == ~sink \/ row.att = run.att

Entered(kind, g, n) == IF sink THEN Append(log, [kind |-> kind, gen |-> g, seq |-> n]) ELSE log
Mark == IF sink THEN "enqueued" ELSE "unavailable"

\* claim_queue_transition; a callback of an older attempt raises, and nothing is written.
AnnounceWait ==
    \E row \in telling :
      /\ IF SameWait(row) /\ ~run.sent /\ ~late /\ Composed(row)
         THEN run' = [run EXCEPT !.sent = TRUE, !.cb = Mark] /\ log' = Entered("transition", row.gen, 0)
         ELSE UNCHANGED <<run, log>>
      /\ telling' = telling \ {row}
      /\ UNCHANGED <<late, due, pass, sink>>

\* A pass takes the time.
BeginPass(p) ==
    /\ PassAt(p, "idle")
    /\ run.open /\ (late \/ due)
    /\ pass' = [pass EXCEPT ![p] = [pc |-> "timeouts",
                                    late |-> IF late THEN run.deadline ELSE None,
                                    due |-> IF due THEN run.next ELSE None,
                                    row |-> NoRow]]
    /\ UNCHANGED <<run, late, due, telling, sink, log>>

Open == run.st \in Waiting /\ run.open
PastDeadline(p) == pass[p].late = run.deadline

\* list_due_queue_timeouts
ReadTimeout(p) ==
    /\ PassAt(p, "timeouts")
    /\ IF Open /\ PastDeadline(p) THEN ReadRow(p, "expire") ELSE Go(p, "status")
    /\ UNCHANGED <<run, late, due, telling, sink, log>>

\* The run leaves the queue, with its terminal callback.
TimedOut == run' = [Closed(run, "timed_out") EXCEPT !.cb = Mark]
            /\ log' = Entered("timeout", run.gen, 0)

\* expire_queued_run_if_due
Expire(p) ==
    /\ PassAt(p, "expire")
    /\ IF ~SameWait(pass[p].row) THEN Go(p, "status") /\ UNCHANGED <<run, log>>
       ELSE IF Composed(pass[p].row) THEN TimedOut /\ Go(p, "status")
       ELSE Abort(p) /\ UNCHANGED <<run, log>>
    /\ UNCHANGED <<late, due, telling, sink>>

\* list_due_queue_status
ReadStatus(p) ==
    /\ PassAt(p, "status")
    /\ IF Open /\ run.next # None /\ pass[p].due = run.next /\ ~PastDeadline(p)
       THEN ReadRow(p, "refresh") ELSE Abort(p)
    /\ UNCHANGED <<run, late, due, telling, sink, log>>

\* advance_queue_status_refresh
Refreshable(p) == SameWait(pass[p].row) /\ run.next = pass[p].row.next

Refresh(p) ==
    /\ PassAt(p, "refresh")
    /\ LET row == pass[p].row
       IN  IF row.seq = run.seq /\ Refreshable(p) /\ Composed(row)
           THEN /\ run' = [run EXCEPT !.next = run.times + 1, !.times = @ + 1, !.seq = @ + 1, !.cb = Mark]
                /\ due' = FALSE
                /\ log' = Entered("refresh", row.gen, row.seq + 1)
           ELSE UNCHANGED <<run, due, log>>
    /\ Abort(p)
    /\ UNCHANGED <<late, telling, sink>>

\* A rehearsed race: the wait times out between the reading of a refresh and its transaction.
RaceTimeout(p) ==
    /\ PassAt(p, "refresh")
    /\ SameWait(pass[p].row) /\ Composed(pass[p].row) /\ TimedOut
    /\ UNCHANGED <<late, due, pass, telling, sink>>

\* The process of the pass dies.
Dies(p) ==
    /\ ~PassAt(p, "idle") /\ Abort(p)
    /\ UNCHANGED <<run, late, due, telling, sink, log>>

-----------------------------------------------------------------------------

PassSteps(p) == ReadTimeout(p) \/ Expire(p) \/ ReadStatus(p) \/ Refresh(p)

QueueNext ==
    \/ ClaimWaiting \/ InvokeRun \/ Requeue \/ Downgrade \/ NeedsInput \/ ResumeGranted \/ End
    \/ DeadlinePasses \/ RefreshComes \/ ForceDeadline \/ AnnounceWait
    \/ \E p \in Passes : BeginPass(p) \/ PassSteps(p) \/ RaceTimeout(p) \/ Dies(p)

QueueSpec == QueueInit /\ [][QueueNext]_queueVars

-----------------------------------------------------------------------------
\* Properties

(* The callbacks of a run tell one story: the waits in their order, each announced at most once
   and refreshed by consecutive numbers, and nothing after the timeout, although processors and
   passes of several processes compose their callbacks from rows that others have moved on. *)
NoticesInOrder ==
    /\ \A i, j \in DOMAIN log : i < j =>
         /\ log[i].gen <= log[j].gen /\ log[i].kind # "timeout"
         /\ log[i].gen = log[j].gen /\ log[j].kind = "transition" => log[i].kind = "refresh"
    /\ \A i \in DOMAIN log : log[i].kind = "refresh" /\ log[i].seq > 1
         => \E j \in 1 .. (i - 1) : log[j] = [log[i] EXCEPT !.seq = @ - 1]
    /\ \A i, j \in DOMAIN log : log[i] = log[j] => i = j

(* A run that timed out in the queue was told so, if anybody can be told, and a run that runs or
   has ended otherwise was not. *)
TimeoutIsTold ==
    (run.st = "timed_out" /\ sink) <=> \E i \in DOMAIN log : log[i].kind = "timeout"

\* What a user is told of a waiting run is one story in its order, and ends with the timeout
\* exactly if the run timed out (claim_queue_transition, advance_queue_status_refresh and
\* expire_queue_generation, called from processors and from the passes of two processes).
NoticesTrue == NoticesInOrder /\ TimeoutIsTold
=============================================================================
