---------------------------- MODULE WorkspaceEnd ----------------------------
(* The end of a workspace: its termination and the durable effects that follow
   it, and the garbage collection of an ephemeral workspace that nobody used for
   the retention time.  One workspace with at most one run.

   Termination inserts two effects in its transaction: the revocation of the
   workspace's signed links and the callback that announces the end.  Service
   processes claim effects under leases with an epoch and apply them.  The
   callback row has an identity derived from the effect; its delivery is
   CallbackOutbox.  The collector claims the workspace with a tombstone, stops
   its compute, deletes its rows and then its storage, if it could name a storage of
   its own to delete when it claimed the workspace.

   Signed links are kept in a database of their own.  A client that makes or opens
   one reads the worker's state, then the revocations, and acts on the answers.

   Schedules, account leases, pending changes and unfinished copies block a
   collection alike and are one Boolean.                                     *)
EXTENDS Naturals, FiniteSets

CONSTANTS Replayers,    \* threads that replay effects, of one or several processes
          Collectors,   \* reaper threads, one per process
          Clients,      \* requests that make or open signed links
          MaxRuns,      \* bound on runs
          MaxTrouble,   \* bound on crashes, errors and leases that end early
          Parallel      \* is the run created by the parallel path?

ASSUME WsBounds == MaxRuns \in Nat /\ MaxTrouble \in Nat /\ Parallel \in BOOLEAN

VARIABLES ws,        \* the worker row: state, kind and whether it was used recently
          mission,   \* state of the latest run, and how many there were
          blocker,   \* a schedule, lease or copy refers to the workspace
          tomb,      \* workspace_gc_tombstones
          storage,   \* does the workspace's directory exist?
          effect,    \* lifecycle_operation_effects of the termination
          links,     \* signed links: a reference exists, the worker is revoked, one opened late
          notices,   \* callback rows inserted for the end of the workspace
          proc,      \* what each thread is doing
          trouble    \* faults so far

wsVars == <<ws, mission, blocker, tomb, storage, effect, links, notices, proc, trouble>>

EffectKinds == {"revoke", "announce"}
Closed == {"terminating", "termination_failed", "terminated"}
Gone == ws.st = "deleted"
NoTomb == [phase |-> "none", by |-> "none", live |-> FALSE, from |-> "none", root |-> FALSE]
NoEffect == [st |-> "none", by |-> "none", live |-> FALSE]
Idle == [pc |-> "idle", kind |-> "none"]
Threads == Replayers \cup Collectors \cup Clients

WsTypeOK ==
    /\ ws \in [st : {"ready", "running", "needs_input", "gc_claimed", "deleted"} \cup Closed,
               kind : {"ephemeral", "named"}, fresh : BOOLEAN]
    /\ mission \in [st : {"none", "queued", "claimed", "running", "needs_input", "over"},
                    count : 0 .. MaxRuns]
    /\ tomb.phase \in {"none", "claimed", "cleanup_pending", "completed"}
    /\ \A k \in EffectKinds : effect[k].st \in {"none", "pending", "applying", "applied"}
    /\ blocker \in BOOLEAN /\ storage \in BOOLEAN /\ trouble \in 0 .. MaxTrouble

WsInit ==
    /\ ws = [st |-> "ready", kind |-> "ephemeral", fresh |-> TRUE]
    /\ mission = [st |-> "none", count |-> 0]
    /\ blocker = FALSE /\ tomb = NoTomb /\ storage = TRUE
    /\ effect = [k \in EffectKinds |-> NoEffect]
    /\ links = [ref |-> FALSE, revoked |-> FALSE, late |-> FALSE]
    /\ notices = 0
    /\ proc = [p \in Threads |-> Idle]
    /\ trouble = 0

CollectorPcs == {"stop_compute", "finalize", "release", "unlink", "cleanup", "remove", "record"}

Busy(p, pc) == proc[p].pc = pc
Step(p, pc) == proc' = [proc EXCEPT ![p].pc = pc]
Done(p) == proc' = [proc EXCEPT ![p] = Idle]
Hit == trouble < MaxTrouble /\ trouble' = trouble + 1

-----------------------------------------------------------------------------
\* The workspace is used

TombActive == tomb.phase \in {"claimed", "cleanup_pending"}

\* create_run; only the older path looks at the tombstone.
CreateRun ==
    /\ ~Gone /\ mission.st \in {"none", "over"} /\ mission.count < MaxRuns
    /\ IF Parallel THEN ws.st # "terminated" ELSE ws.st \notin Closed /\ ~TombActive
    /\ mission' = [st |-> "queued", count |-> mission.count + 1]
    /\ ws' = [ws EXCEPT !.fresh = TRUE]
    /\ UNCHANGED <<blocker, tomb, storage, effect, links, notices, proc, trouble>>

\* The run is claimed, invoked, confirmed, waits for its owner and ends (HostRuns).
DispatchRun ==
    /\ mission.st = "queued" /\ ws.st \notin {"needs_input", "terminated", "deleted"}
    /\ mission' = [mission EXCEPT !.st = "claimed"]
    /\ UNCHANGED <<ws, blocker, tomb, storage, effect, links, notices, proc, trouble>>
InvokeRun ==
    /\ mission.st = "claimed" /\ ~Gone /\ ws.st \notin Closed
    /\ mission' = [mission EXCEPT !.st = "running"]
    /\ ws' = [ws EXCEPT !.st = "running", !.fresh = TRUE]
    /\ UNCHANGED <<blocker, tomb, storage, effect, links, notices, proc, trouble>>
LeaveRun ==
    /\ mission.st = "running"
    /\ \E s \in {"needs_input", "over"} :
         /\ mission' = [mission EXCEPT !.st = s]
         /\ ws' = IF ws.st \in Closed THEN ws
                  ELSE [ws EXCEPT !.st = IF s = "over" THEN "ready" ELSE s, !.fresh = TRUE]
    /\ UNCHANGED <<blocker, tomb, storage, effect, links, notices, proc, trouble>>

\* A schedule, refused during a collection, or its end.
Block ==
    /\ ~Gone /\ blocker' = ~blocker
    /\ ~blocker => ~TombActive /\ ws.st \notin Closed
    /\ UNCHANGED <<ws, mission, tomb, storage, effect, links, notices, proc, trouble>>

\* update_worker_metadata: a favourite is kept.
Favour ==
    /\ ~Gone /\ ws.kind = "ephemeral" /\ ~TombActive
    /\ ws' = [ws EXCEPT !.kind = "named", !.fresh = TRUE]
    /\ UNCHANGED <<mission, blocker, tomb, storage, effect, links, notices, proc, trouble>>

\* The retention time passes.  A run that was claimed does not take that long to start.
Age ==
    /\ ws.fresh /\ mission.st # "claimed"
    /\ ws' = [ws EXCEPT !.fresh = FALSE]
    /\ UNCHANGED <<mission, blocker, tomb, storage, effect, links, notices, proc, trouble>>

-----------------------------------------------------------------------------
\* Signed links

\* A client has a signed token, or read that of a reference.  worker_signed_links_blocked, first
\* half: the state in the runtime's database.  An error of either read counts as "not blocked".
\* Without a row of the worker no caller goes on.
ReadWorker(p) ==
    /\ Busy(p, "idle") /\ ~Gone
    /\ IF ws.st = "terminated" THEN Hit ELSE UNCHANGED trouble
    /\ Step(p, "verify")
    /\ UNCHANGED <<ws, mission, blocker, tomb, storage, effect, links, notices>>

\* Second half: the revocation in the database of the links.  Then the link is opened, or a
\* reference is made of it.  late remembers one that was opened after the announcement on a read
\* that succeeded.
ReadRevocation(p) ==
    /\ Busy(p, "verify")
    /\ \/ links.revoked /\ Done(p) /\ UNCHANGED <<links, trouble>>
       \/ /\ IF links.revoked THEN Hit ELSE UNCHANGED trouble
          /\ \/ Step(p, "insert") /\ UNCHANGED links
             \/ /\ Done(p)
                /\ links' = [links EXCEPT !.late = @ \/ (~links.revoked /\ notices > 0)]
    /\ UNCHANGED <<ws, mission, blocker, tomb, storage, effect, notices>>

\* create_signed_link_ref inserts without a second look.
InsertRef(p) ==
    /\ Busy(p, "insert")
    /\ links' = [links EXCEPT !.ref = TRUE]
    /\ Done(p)
    /\ UNCHANGED <<ws, mission, blocker, tomb, storage, effect, notices, trouble>>

-----------------------------------------------------------------------------
\* Termination and its effects

\* begin_worker_termination, fail_worker_termination.  Bound: one termination is completed; the
\* effects of another one would be rows of their own.
BeginTermination ==
    /\ ~Gone /\ ws.st \notin {"terminating", "terminated"}
    /\ effect["revoke"].st = "none"
    /\ ws' = [ws EXCEPT !.st = "terminating", !.fresh = TRUE]
    /\ blocker' = FALSE
    /\ mission' = IF mission.st \in {"none", "over"} THEN mission ELSE [mission EXCEPT !.st = "over"]
    /\ UNCHANGED <<tomb, storage, effect, links, notices, proc, trouble>>
FailTermination ==
    /\ ws.st = "terminating" /\ Hit
    /\ ws' = [ws EXCEPT !.st = "termination_failed", !.fresh = TRUE]
    /\ UNCHANGED <<mission, blocker, tomb, storage, effect, links, notices, proc>>

\* complete_worker_termination: the effects are inserted with the terminal state.
CompleteTermination ==
    /\ ws.st = "terminating"
    /\ ws' = [ws EXCEPT !.st = "terminated", !.fresh = TRUE]
    /\ effect' = [k \in EffectKinds |-> [NoEffect EXCEPT !.st = "pending"]]
    /\ UNCHANGED <<mission, blocker, tomb, storage, links, notices, proc, trouble>>

\* Mutant: a claim whose thread died is never taken over.
ClaimPendingEffect(p, k) ==
    /\ Busy(p, "idle") /\ effect[k].st = "pending"
    /\ effect' = [effect EXCEPT ![k] = [st |-> "applying", by |-> p, live |-> TRUE]]
    /\ proc' = [proc EXCEPT ![p] = [pc |-> "apply", kind |-> k]]
    /\ UNCHANGED <<ws, mission, blocker, tomb, storage, links, notices, trouble>>

\* claim_next_lifecycle_effect: a pending effect, or one whose lease ended.  The lease names its
\* executor and epoch, which together are the thread that took it.
ClaimEffect(p, k) ==
    /\ Busy(p, "idle")
    /\ \/ effect[k].st = "pending"
       \/ effect[k].st = "applying" /\ ~effect[k].live
    /\ effect' = [effect EXCEPT ![k] = [st |-> "applying", by |-> p, live |-> TRUE]]
    /\ proc' = [proc EXCEPT ![p] = [pc |-> "apply", kind |-> k]]
    /\ UNCHANGED <<ws, mission, blocker, tomb, storage, links, notices, trouble>>

\* mark_lifecycle_effect_applied and retry_lifecycle_effect write under this lease only.
Holds(p, k) == effect[k].st = "applying" /\ effect[k].by = p
Settled(p, k, st) ==
    effect' = IF Holds(p, k) THEN [effect EXCEPT ![k] = [@ EXCEPT !.st = st, !.by = "none", !.live = FALSE]]
              ELSE effect

\* revoke_signed_link_refs_for_worker, in the database of the links.
Revoke(p) ==
    /\ Busy(p, "apply") /\ proc[p].kind = "revoke" /\ ~Gone
    /\ links' = [links EXCEPT !.ref = FALSE, !.revoked = TRUE]
    /\ Step(p, "mark")
    /\ UNCHANGED <<ws, mission, blocker, tomb, storage, effect, notices, trouble>>

\* Mutant: the announcement waits for its peer's claim, not for its result.
RevocationClaimed == effect["revoke"].st \in {"applying", "applied"}

\* paired_lifecycle_effect_is_applied and is_worker_signed_link_revoked
RevocationDone == links.revoked /\ effect["revoke"].st = "applied"

\* The callback row is inserted once; a later application finds it.
Announce(p) ==
    /\ Busy(p, "apply") /\ proc[p].kind = "announce" /\ ~Gone
    /\ RevocationDone
    /\ notices' = 1
    /\ Step(p, "mark")
    /\ UNCHANGED <<ws, mission, blocker, tomb, storage, effect, links, trouble>>

MarkApplied(p) ==
    /\ Busy(p, "mark")
    /\ Settled(p, proc[p].kind, "applied")
    /\ Done(p)
    /\ UNCHANGED <<ws, mission, blocker, tomb, storage, links, notices, trouble>>

\* The worker is gone, the peer is not applied yet, or the sink failed.
RetryEffect(p) ==
    /\ Busy(p, "apply")
    /\ \/ Gone /\ UNCHANGED trouble
       \/ ~Gone /\ proc[p].kind = "announce" /\ ~RevocationDone /\ UNCHANGED trouble
       \/ ~Gone /\ Hit
    /\ Settled(p, proc[p].kind, "pending")
    /\ Done(p)
    /\ UNCHANGED <<ws, mission, blocker, tomb, storage, links, notices>>

-----------------------------------------------------------------------------
\* Garbage collection

\* _ephemeral_gc_has_blocker
HasBlocker == mission.st \in {"queued", "running"} \/ blocker

Eligible == ~Gone /\ ws.kind = "ephemeral" /\ ~ws.fresh

\* claim_ephemeral_workspace_gc: a first claim, or one whose lease ended.  The tombstone keeps
\* what _managed_ephemeral_storage_root attested for this claim: nothing for a workspace on the
\* host, one with a root of its own or other recorded paths, or after an error of the file system.
ClaimWorkspace(p) ==
    /\ Busy(p, "idle") /\ Eligible
    /\ \/ /\ tomb.phase = "none" /\ ws.st \notin {"running", "gc_claimed"} /\ ~HasBlocker
          /\ \E root \in BOOLEAN :
               tomb' = [phase |-> "claimed", by |-> p, live |-> TRUE, from |-> ws.st, root |-> root]
          /\ ws' = [ws EXCEPT !.st = "gc_claimed"]
          /\ Step(p, "stop_compute")
       \/ /\ tomb.phase = "claimed" /\ ~tomb.live /\ ws.st = "gc_claimed" /\ HasBlocker
          /\ tomb' = NoTomb /\ ws' = [ws EXCEPT !.st = tomb.from]
          /\ UNCHANGED proc
       \/ /\ tomb.phase = "claimed" /\ ~tomb.live /\ ws.st = "gc_claimed" /\ ~HasBlocker
          /\ \E root \in BOOLEAN : tomb' = [tomb EXCEPT !.by = p, !.live = TRUE, !.root = root]
          /\ Step(p, "stop_compute") /\ UNCHANGED ws
    /\ UNCHANGED <<mission, blocker, storage, effect, links, notices, trouble>>

\* terminate_worker on the claimed workspace.
StopCompute(p) ==
    /\ Busy(p, "stop_compute")
    /\ Step(p, "finalize")
    /\ UNCHANGED <<ws, mission, blocker, tomb, storage, effect, links, notices, trouble>>
StopComputeFails(p) ==
    /\ Busy(p, "stop_compute") /\ Hit
    /\ Step(p, "release")
    /\ UNCHANGED <<ws, mission, blocker, tomb, storage, effect, links, notices>>

OwnTomb(p, phase) == tomb.phase = phase /\ tomb.by = p

\* finalize_ephemeral_workspace_gc: the rows go, callbacks included.
FinalizeGC(p) ==
    /\ Busy(p, "finalize")
    /\ IF OwnTomb(p, "claimed") /\ Eligible /\ ws.st = "gc_claimed" /\ ~HasBlocker
       THEN /\ ws' = [ws EXCEPT !.st = "deleted"]
            /\ mission' = [mission EXCEPT !.st = IF @ = "none" THEN @ ELSE "over"]
            /\ tomb' = [tomb EXCEPT !.phase = "cleanup_pending"]
            /\ Step(p, "unlink")
       ELSE Step(p, "release") /\ UNCHANGED <<ws, mission, tomb>>
    /\ UNCHANGED <<blocker, storage, effect, links, notices, trouble>>

\* release_ephemeral_workspace_gc_claim
ReleaseGC(p) ==
    /\ Busy(p, "release")
    /\ IF OwnTomb(p, "claimed")
       THEN /\ tomb' = NoTomb
            /\ ws' = IF ws.st = "gc_claimed" THEN [ws EXCEPT !.st = tomb.from, !.fresh = FALSE] ELSE ws
       ELSE UNCHANGED <<tomb, ws>>
    /\ Done(p)
    /\ UNCHANGED <<mission, blocker, storage, effect, links, notices, trouble>>

\* The links are revoked; an error is only logged.
Unlink(p) ==
    /\ Busy(p, "unlink")
    /\ \/ links' = [links EXCEPT !.ref = FALSE, !.revoked = TRUE] /\ UNCHANGED trouble
       \/ UNCHANGED links /\ Hit
    /\ Step(p, "cleanup")
    /\ UNCHANGED <<ws, mission, blocker, tomb, storage, effect, notices>>

\* Mutant: no later pass takes up a cleanup.
ClaimOwnCleanup(p) ==
    /\ tomb.phase = "cleanup_pending" /\ Busy(p, "cleanup") /\ tomb.by = p
    /\ tomb' = [tomb EXCEPT !.live = TRUE]
    /\ Step(p, "remove")
    /\ UNCHANGED <<ws, mission, blocker, storage, effect, links, notices, trouble>>

\* claim_workspace_gc_cleanup by the collector itself or by a later pass.
ClaimCleanup(p) ==
    /\ tomb.phase = "cleanup_pending"
    /\ \/ Busy(p, "cleanup") /\ (tomb.by = p \/ ~tomb.live)
       \/ Busy(p, "idle") /\ ~tomb.live
    /\ tomb' = [tomb EXCEPT !.by = p, !.live = TRUE]
    /\ Step(p, "remove")
    /\ UNCHANGED <<ws, mission, blocker, storage, effect, links, notices, trouble>>
SkipCleanup(p) ==
    /\ Busy(p, "cleanup")
    /\ tomb.phase # "cleanup_pending" \/ (tomb.by # p /\ tomb.live)
    /\ Done(p)
    /\ UNCHANGED <<ws, mission, blocker, tomb, storage, effect, links, notices, trouble>>

\* _cleanup_workspace_gc_tombstone: rmtree of the root in the tombstone, attested again; without one
\* nothing is removed, and the cleanup is recorded all the same.
RemoveStorage(p) ==
    /\ Busy(p, "remove")
    /\ storage' = (storage /\ ~tomb.root)
    /\ Step(p, "record")
    /\ UNCHANGED <<ws, mission, blocker, tomb, effect, links, notices, trouble>>

\* record_workspace_gc_cleanup, with success or with an error (the root is not attested any more, or
\* rmtree fails) that leaves the row to others.
RecordCleanup(p) ==
    /\ \/ Busy(p, "record") /\ UNCHANGED trouble
          /\ tomb' = IF OwnTomb(p, "cleanup_pending")
                     THEN [tomb EXCEPT !.phase = "completed", !.by = "none", !.live = FALSE] ELSE tomb
       \/ Busy(p, "remove") /\ Hit
          /\ tomb' = IF OwnTomb(p, "cleanup_pending")
                     THEN [tomb EXCEPT !.by = "none", !.live = FALSE] ELSE tomb
    /\ Done(p)
    /\ UNCHANGED <<ws, mission, blocker, storage, effect, links, notices>>

-----------------------------------------------------------------------------
\* Time and crashes

\* The lease of a tombstone or of an effect ends.  That of a thread at work ends early.
EndTomb ==
    /\ tomb.live
    /\ tomb' = [tomb EXCEPT !.live = FALSE]
    /\ IF proc[tomb.by].pc \in CollectorPcs THEN Hit ELSE UNCHANGED trouble
    /\ UNCHANGED <<ws, mission, blocker, storage, effect, links, notices, proc>>
EndLease(k) ==
    /\ effect[k].live
    /\ effect' = [effect EXCEPT ![k].live = FALSE]
    /\ IF proc[effect[k].by].kind # k THEN UNCHANGED trouble ELSE Hit
    /\ UNCHANGED <<ws, mission, blocker, tomb, storage, links, notices, proc>>

Crash(p) ==
    /\ ~Busy(p, "idle") /\ Hit
    /\ Done(p)
    /\ UNCHANGED <<ws, mission, blocker, tomb, storage, effect, links, notices>>

Replay(p) ==
    \/ \E k \in EffectKinds : ClaimEffect(p, k)
    \/ Revoke(p) \/ Announce(p) \/ MarkApplied(p) \/ RetryEffect(p)
UseLink(p) == ReadWorker(p) \/ ReadRevocation(p) \/ InsertRef(p)
Collect(p) ==
    \/ ClaimWorkspace(p) \/ StopCompute(p) \/ StopComputeFails(p) \/ FinalizeGC(p) \/ ReleaseGC(p)
    \/ Unlink(p) \/ ClaimCleanup(p) \/ SkipCleanup(p) \/ RemoveStorage(p) \/ RecordCleanup(p)

WsNext ==
    \/ CreateRun \/ DispatchRun \/ InvokeRun \/ LeaveRun \/ Block \/ Favour \/ Age
    \/ BeginTermination \/ FailTermination \/ CompleteTermination
    \/ \E p \in Replayers : Replay(p)
    \/ \E p \in Collectors : Collect(p)
    \/ \E p \in Clients : UseLink(p)
    \/ \E p \in Replayers \cup Collectors : Crash(p)
    \/ EndTomb \/ \E k \in EffectKinds : EndLease(k)

WsSpec == WsInit /\ [][WsNext]_wsVars

\* The retry loop and the reaper of every process run for ever, requests and leases end.
FairWsSpec ==
    /\ WsSpec
    /\ WF_wsVars(EndTomb) /\ \A k \in EffectKinds : WF_wsVars(EndLease(k))
    /\ \A p \in Replayers : WF_wsVars(Replay(p)) /\ \A k \in EffectKinds : SF_wsVars(ClaimEffect(p, k))
    /\ \A p \in Collectors : WF_wsVars(Collect(p)) /\ SF_wsVars(ClaimCleanup(p))
    /\ \A p \in Clients : WF_wsVars(ReadRevocation(p) \/ InsertRef(p))

-----------------------------------------------------------------------------
\* Properties

\* The end of a workspace is announced only when its links are revoked, whichever processes apply
\* the two effects and whatever leases end in between; no link opens after the announcement, not
\* even one whose reference was inserted later on a check that came before the revocation.
AnnouncedAfterRevocation == notices > 0 => links.revoked /\ ~links.late

\* No reference is left after the announcement.  Does not hold: InsertRef does not look again.
AnnouncedWithoutRefs == notices > 0 => ~links.ref

\* The collector never deletes the rows under a run that is queued, starting or executing,
\* although runs are created, dispatched and given up while it holds its claim.  Does not hold:
\* a run that is claimed and not yet running is in no list of the blockers.
CollectedIsIdle ==
    [][Gone' /\ ~Gone => mission.st \notin {"queued", "claimed", "running"} /\ ~blocker]_wsVars

\* Storage is removed only for a workspace whose rows are gone.
StorageOutlivesRows == ~storage => Gone

\* The storage of a collected workspace is removed in the end, by the collector that claimed it or
\* by a later one, if the claim could name it.
CollectedIsRemoved == Gone /\ tomb.root ~> ~storage

\* Whatever the claim could name.  Does not hold: without a root the cleanup is recorded as complete.
CompletedIsRemoved == tomb.phase = "completed" => ~storage

\* A terminated workspace has its links revoked and its end announced, or is collected first.
TerminationTakesEffect == ws.st = "terminated" ~> (Gone \/ \A k \in EffectKinds : effect[k].st = "applied")

\* The links of a collected workspace are revoked.  Does not hold: an error of the revocation
\* is logged and not retried.
CollectedIsUnlinked == tomb.phase = "completed" => links.revoked

\* A run that waits for its owner keeps its workspace.  Does not hold: it is no blocker.
WaitingKeepsWorkspace == [][Gone' /\ ~Gone => mission.st # "needs_input"]_wsVars

=============================================================================
