---------------------------- MODULE HostProcess ----------------------------
(***************************************************************************)
(* The host processes of one worker: the run threads of two service        *)
(* processes that share its runtime root, the durable supervisor each run  *)
(* starts, the files they meet at, and the controls and reconciliations    *)
(* that stop a supervisor by its recorded identity.                        *)
(*                                                                         *)
(* A generation is one launch of a run.  Its supervisor outlives a crash   *)
(* of the service; the active-session file names the generation a control  *)
(* may signal, and the handle and the capacity slot live in the memory of  *)
(* the process that launched it.  Everything that releases one of the      *)
(* three compares it with what it captured before.                         *)
(***************************************************************************)
EXTENDS Naturals

CONSTANTS
    Procs,          \* the service processes
    Ops,            \* the controls: pause_worker, interrupt_worker, terminate_worker
    MaxGen,         \* bound: launches of this worker
    RunOf,          \* the run of a generation; a retry shares the run root
    Stubborn,       \* the generations whose harness ignores SIGTERM
    MaxControls,    \* bound: controls claimed
    MaxCrashes,     \* bound: crashes and stalls of a service process
    MaxMishaps      \* bound: late or refused starts, and failed probes

Gens == 1 .. MaxGen

ASSUME LaunchesAssumption ==
    /\ "none" \notin Procs
    /\ Ops \subseteq {"pause", "interrupt", "terminate"}
    /\ MaxGen \in Nat /\ MaxControls \in Nat /\ MaxCrashes \in Nat /\ MaxMishaps \in Nat
    /\ DOMAIN RunOf = Gens
    /\ Stubborn \subseteq Gens

\* The run roots: the attempts of a run share one.
Roots == {RunOf[g] : g \in Gens}

VARIABLES
    lane,       \* of the worker: conversation or mission
    sup,        \* the supervisors
    child,      \* the harness processes under them
    files,      \* start-permit, supervisor-ready and exit_code of a run root
    session,    \* the generation the active-session file names, or 0
    receipt,    \* host_control_receipt.json
    mem,        \* the handle, the slot and the stop reasons of a process
    lease,      \* the host_run_leases rows
    thread,     \* run_task, one call per generation
    ctl,        \* the lifecycle claim and the control that runs under it
    spent       \* controls, crashes and mishaps so far

osVars == <<lane, sup, child, files>>
pvars == <<lane, sup, child, files, session, receipt, mem, lease, thread, ctl, spent>>

Supervised == {"starting", "waiting", "authoring", "stopping"}
Alive(g) == sup[g] \in Supervised

NoSlot == [tok |-> 0, lane |-> FALSE, listed |-> "no"]
NoMem == [proc |-> 0, slot |-> NoSlot, reason |-> [g \in Gens |-> "none"]]
NoLease == [st |-> "none", by |-> "none", ident |-> FALSE, stale |-> FALSE]
NoThread == [pc |-> "none", by |-> "none", owned |-> FALSE, out |-> "none"]
NoControl == [pc |-> "none", op |-> "none", gen |-> 0, by |-> "none", exp |-> 0, proc |-> 0,
              local |-> FALSE]

Launching == {"invoked", "spawned", "ready", "published", "identified", "rejecting"}
Signalling == {"captured", "aimed", "termed", "gone", "stopped"}

ProcessTypeOK ==
    /\ lane \in {"conversation", "mission"}
    /\ sup \in [Gens -> Supervised \cup {"none", "dead"}]
    /\ child \in [Gens -> {"none", "alive", "dead"}]
    /\ files \in [Roots -> [permit : BOOLEAN, ready : 0 .. MaxGen, exit : {"none", "ok", "bad"}]]
    /\ session \in 0 .. MaxGen
    /\ receipt \in [gen : 0 .. MaxGen, op : Ops \cup {"none"},
                    st : {"none", "requested", "confirmed"}]
    /\ mem \in [Procs -> [proc : 0 .. MaxGen,
                          slot : [tok : 0 .. MaxGen, lane : BOOLEAN,
                                  listed : {"no", "set", "name"}],
                          reason : [Gens -> Ops \cup {"none"}]]]
    /\ lease \in [Gens -> [st : {"none", "reserved", "confirmed", "unconfirmed", "released"},
                           by : Procs \cup {"none"}, ident : BOOLEAN, stale : BOOLEAN]]
    /\ thread \in [Gens -> [pc : Launching \cup {"none", "begun", "confirmed", "running",
                                  "ending", "reporting", "settling", "done", "unstarted", "lost"},
                            by : Procs \cup {"none"}, owned : BOOLEAN,
                            out : Ops \cup {"none", "error", "completed", "failed"}]]
    /\ ctl \in [pc : Signalling \cup {"none", "claimed", "receipted"}, op : Ops \cup {"none"},
                gen : 0 .. MaxGen, by : Procs \cup {"none"}, exp : 0 .. MaxGen,
                proc : 0 .. MaxGen, local : BOOLEAN]
    /\ spent \in [controls : 0 .. MaxControls, crashes : 0 .. MaxCrashes, mishaps : 0 .. MaxMishaps]

ProcessInit ==
    /\ lane \in {"conversation", "mission"}
    /\ sup = [g \in Gens |-> "none"]
    /\ child = [g \in Gens |-> "none"]
    /\ files = [r \in Roots |-> [permit |-> FALSE, ready |-> 0, exit |-> "none"]]
    /\ session = 0
    /\ receipt = [gen |-> 0, op |-> "none", st |-> "none"]
    /\ mem = [p \in Procs |-> NoMem]
    /\ lease = [g \in Gens |-> NoLease]
    /\ thread = [g \in Gens |-> NoThread]
    /\ ctl = NoControl
    /\ spent = [controls |-> 0, crashes |-> 0, mishaps |-> 0]

-----------------------------------------------------------------------------
(* The supervisor and the signals it gets.                                 *)

\* It names itself ready and waits for the start permit.
SupervisorReady(g) ==
    /\ sup[g] = "starting"
    /\ sup' = [sup EXCEPT ![g] = "waiting"]
    /\ files' = [files EXCEPT ![RunOf[g]].ready = g]
    /\ UNCHANGED <<lane, child, session, receipt, mem, lease, thread, ctl, spent>>

SupervisorAuthors(g) ==
    /\ sup[g] = "waiting"
    /\ files[RunOf[g]].permit
    /\ sup' = [sup EXCEPT ![g] = "authoring"]
    /\ child' = [child EXCEPT ![g] = "alive"]
    /\ UNCHANGED <<lane, files, session, receipt, mem, lease, thread, ctl, spent>>

\* The exit marker is the supervisor's last write.
SupervisorEnds(g, code) ==
    /\ sup' = [sup EXCEPT ![g] = "dead"]
    /\ files' = [files EXCEPT ![RunOf[g]].exit = code]
    /\ UNCHANGED <<lane, session, receipt, mem, lease, thread, ctl, spent>>

\* No permit came within thirty seconds.
HandshakeTimesOut(g) ==
    /\ sup[g] = "waiting"
    /\ ~files[RunOf[g]].permit
    /\ SupervisorEnds(g, "bad")
    /\ UNCHANGED child

\* The harness ends, by itself or at the run's time limit.
HarnessEnds(g) ==
    /\ sup[g] = "authoring"
    /\ child' = [child EXCEPT ![g] = "dead"]
    /\ \E code \in {"ok", "bad"} : SupervisorEnds(g, code)

\* After a signal the supervisor ends its harness, with SIGKILL if it must.
SupervisorStops(g) ==
    /\ sup[g] = "stopping"
    /\ child' = [child EXCEPT ![g] = "dead"]
    /\ SupervisorEnds(g, "bad")

\* SIGTERM to the supervisor's group: before its handlers are installed it dies at
\* once, without a permit it writes its marker, else it first stops the harness.
Terminate(g) ==
    /\ sup' = [sup EXCEPT ![g] = CASE @ \in {"starting", "waiting"} -> "dead"
                                   [] @ = "authoring" -> "stopping"
                                   [] OTHER -> @]
    /\ files' = IF sup[g] = "waiting" THEN [files EXCEPT ![RunOf[g]].exit = "bad"] ELSE files
    /\ UNCHANGED <<lane, child>>

\* SIGKILL reaches the supervisor only: the harness has a group of its own.
KillSupervisor(g) ==
    /\ sup' = [sup EXCEPT ![g] = "dead"]
    /\ UNCHANGED <<lane, child, files>>

\* SIGTERM, five seconds, SIGKILL, and the wait for the end, in one call.
StopAndWait(g) ==
    /\ sup' = [sup EXCEPT ![g] = IF Alive(g) THEN "dead" ELSE @]
    /\ files' = IF sup[g] \in {"waiting", "authoring", "stopping"} /\ g \notin Stubborn
                THEN [files EXCEPT ![RunOf[g]].exit = "bad"] ELSE files
    /\ child' = [child EXCEPT ![g] = IF @ = "alive" /\ g \notin Stubborn THEN "dead" ELSE @]
    /\ UNCHANGED lane

-----------------------------------------------------------------------------
(* What releases the file, the handle and the slot.                        *)

\* A lane popped takes the worker off the lane's list.
Freed(slot) == [tok |-> 0, lane |-> FALSE, listed |-> IF slot.lane THEN "no" ELSE slot.listed]

\* _release_host_slot_locked: only the slot of this token, or none at all.
ReleasedSlot(slot, tok) == IF slot.tok = tok THEN Freed(slot) ELSE slot

SlotIs(p, tok) == mem[p].slot.tok = tok \/ mem[p].slot = NoSlot
AllAbsent(p) == session = 0 /\ mem[p].proc = 0 /\ mem[p].slot = NoSlot

\* Mutant of CanFinalize: the session file is not compared with the captured one.
CanFinalizeAnySession(p, proc, exp, tok) ==
    AllAbsent(p) \/ (mem[p].proc = proc /\ SlotIs(p, tok))

CanFinalize(p, proc, exp, tok) ==
    AllAbsent(p) \/ (session = exp /\ mem[p].proc = proc /\ SlotIs(p, tok))

FinalizeOwned(p, clear) ==
    /\ session' = IF clear THEN 0 ELSE session
    /\ mem' = [mem EXCEPT ![p].proc = 0, ![p].slot = Freed(mem[p].slot)]

-----------------------------------------------------------------------------
(* run_task.                                                               *)

At(g, step) == thread[g].pc = step
Goto(g, step) == thread' = [thread EXCEPT ![g].pc = step]
Idle(g) == thread[g].pc \in {"none", "done", "unstarted", "lost"}

\* The worker's flock: a launch until its confirmation, and a control.
LockFree == (\A g \in Gens : thread[g].pc \notin Launching) /\ ctl.pc \notin Signalling

Mishap == /\ spent.mishaps < MaxMishaps
         /\ spent' = [spent EXCEPT !.mishaps = @ + 1]
Absence == /\ spent.crashes < MaxCrashes
           /\ spent' = [spent EXCEPT !.crashes = @ + 1]

\* One processor of a worker in a process; the ledger gives a run to one generation
\* at a time and none while a control is claimed.
Begin(p, g) ==
    /\ At(g, "none")
    /\ \A h \in Gens : h < g => lease[h].st = "released"
    /\ \A h \in Gens : thread[h].by = p => Idle(h)
    /\ ctl.pc = "none"
    /\ lease' = [lease EXCEPT ![g].st = "reserved", ![g].by = p]
    /\ thread' = [thread EXCEPT ![g].pc = "begun", ![g].by = p]
    /\ UNCHANGED <<osVars, session, receipt, mem, ctl, spent>>

Invoke(g) ==
    /\ At(g, "begun")
    /\ LockFree
    /\ Goto(g, IF lease[g].st = "reserved" /\ ~lease[g].stale THEN "invoked" ELSE "done")
    /\ UNCHANGED <<osVars, session, receipt, mem, lease, ctl, spent>>

\* The slot, the supervisor and its handle.
Spawn(g) ==
    /\ At(g, "invoked")
    /\ sup' = [sup EXCEPT ![g] = "starting"]
    /\ mem' = [mem EXCEPT ![thread[g].by].proc = g,
                          ![thread[g].by].slot = [tok |-> g, lane |-> TRUE, listed |-> "set"]]
    /\ Goto(g, "spawned")
    /\ UNCHANGED <<lane, child, files, session, receipt, lease, ctl, spent>>

SeeReady(g) ==
    /\ At(g, "spawned")
    /\ files[RunOf[g]].ready = g
    /\ Goto(g, "ready")
    /\ UNCHANGED <<osVars, session, receipt, mem, lease, ctl, spent>>

\* abort_unready: not ready within five seconds.
NotReady(g) ==
    /\ At(g, "spawned")
    /\ sup[g] = "starting"
    /\ Mishap
    /\ Terminate(g)
    /\ thread' = [thread EXCEPT ![g].pc = "ending", ![g].out = "error"]
    /\ UNCHANGED <<session, receipt, mem, lease, ctl>>

\* _write_active_session: the file replaces whatever was there.
Publish(g) ==
    /\ At(g, "ready")
    /\ session' = g
    /\ Goto(g, "published")
    /\ UNCHANGED <<osVars, receipt, mem, lease, ctl, spent>>

\* The process observer copies the identity to a lease that is still this executor's.
Identify(g) ==
    /\ At(g, "published")
    /\ lease' = [lease EXCEPT ![g].ident = @ \/ ~lease[g].stale]
    /\ Goto(g, "identified")
    /\ UNCHANGED <<osVars, session, receipt, mem, ctl, spent>>

\* The start observer confirms the reservation and releases the flock.
Confirm(g) ==
    /\ At(g, "identified")
    /\ lease[g].st = "reserved" /\ ~lease[g].stale
    /\ lease' = [lease EXCEPT ![g].st = "confirmed", ![g].ident = TRUE]
    /\ Goto(g, "confirmed")
    /\ UNCHANGED <<osVars, session, receipt, mem, ctl, spent>>

\* It refuses: the lease expired, or something claimed the run (a mishap here).
Reject(g) ==
    /\ At(g, "identified")
    /\ IF lease[g].stale THEN UNCHANGED spent ELSE Mishap
    /\ Terminate(g)
    /\ Goto(g, "rejecting")
    /\ UNCHANGED <<session, receipt, mem, lease, ctl>>

RejectKills(g) ==
    /\ At(g, "rejecting")
    /\ sup[g] = "stopping" /\ g \in Stubborn
    /\ KillSupervisor(g)
    /\ UNCHANGED <<session, receipt, mem, lease, thread, ctl, spent>>

\* The process is gone: its handle, its session and its slot go, and the run is
\* queued again.
RejectCleans(g) ==
    LET p == thread[g].by IN
    /\ At(g, "rejecting")
    /\ ~Alive(g)
    /\ mem[p].proc = g /\ session = g
    /\ session' = 0
    /\ mem' = [mem EXCEPT ![p].proc = 0,
                          ![p].slot = ReleasedSlot(mem[p].slot, g)]
    /\ thread' = [thread EXCEPT ![g].pc = "settling", ![g].out = "error"]
    /\ UNCHANGED <<osVars, receipt, lease, ctl, spent>>

\* The stop was not confirmed: everything stays, and the lease fences the run.
RejectUnconfirmed(g) ==
    /\ At(g, "rejecting")
    /\ Alive(g)
    /\ Mishap
    /\ lease' = [lease EXCEPT ![g].st = "unconfirmed"]
    /\ Goto(g, "done")
    /\ UNCHANGED <<osVars, session, receipt, mem, ctl>>

\* _release_durable_host_process: no permit over an exit marker of the same run.
Permitted(r) == [files EXCEPT ![r].permit = @ \/ files[r].exit = "none"]

\* The session is read again; a control that came in between has cleared it.
Permit(g) ==
    /\ At(g, "confirmed")
    /\ IF session = 0
       THEN /\ thread' = [thread EXCEPT ![g].pc = "ending", ![g].out = "error"]
            /\ UNCHANGED files
       ELSE /\ thread' = [thread EXCEPT ![g].pc = "running", ![g].owned = (session = g)]
            /\ files' = Permitted(RunOf[session])
    /\ UNCHANGED <<lane, sup, child, session, receipt, mem, lease, ctl, spent>>

Ended(g) ==
    /\ At(g, "running")
    /\ ~Alive(g)
    /\ Goto(g, "ending")
    /\ UNCHANGED <<osVars, session, receipt, mem, lease, ctl, spent>>

\* _finish_host_run_generation: every way here has seen the process end.  A mission
\* leaves its session file.
Finish(g) ==
    LET p == thread[g].by IN
    /\ At(g, "ending")
    /\ IF CanFinalize(p, g, IF thread[g].owned THEN g ELSE 0, g)
       THEN /\ FinalizeOwned(p, lane = "conversation")
            /\ Goto(g, IF thread[g].out = "none" THEN "reporting" ELSE "settling")
       ELSE /\ thread' = [thread EXCEPT ![g].pc = "settling", ![g].out = "error"]
            /\ UNCHANGED <<session, mem>>
    /\ UNCHANGED <<osVars, receipt, lease, ctl, spent>>

\* The stop reason decides, then the exit marker.
Report(g) ==
    LET p == thread[g].by
        reason == mem[p].reason[g] IN
    /\ At(g, "reporting")
    /\ mem' = [mem EXCEPT ![p].reason[g] = "none"]
    /\ thread' = [thread EXCEPT ![g].pc = "settling",
                                ![g].out = IF reason # "none" THEN reason
                                           ELSE IF files[RunOf[g]].exit = "ok" THEN "completed"
                                           ELSE "failed"]
    /\ UNCHANGED <<osVars, session, receipt, lease, ctl, spent>>

\* The service records the result and releases the lease, unless a control has
\* claimed this run: then the control does.
SettleRun(g) ==
    /\ At(g, "settling")
    /\ lease' = IF ctl.gen = g THEN lease ELSE [lease EXCEPT ![g].st = "released"]
    /\ Goto(g, "done")
    /\ UNCHANGED <<osVars, session, receipt, mem, ctl, spent>>

-----------------------------------------------------------------------------
(* The controls.                                                           *)

ClaimControl(op) ==
    /\ ctl.pc = "none"
    /\ spent.controls < MaxControls
    /\ spent' = [spent EXCEPT !.controls = @ + 1]
    /\ \E g \in Gens : /\ lease[g].st = "confirmed"
                       /\ ctl' = [NoControl EXCEPT !.pc = "claimed", !.op = op, !.gen = g]
    /\ UNCHANGED <<osVars, session, receipt, mem, lease, thread>>

SameControl == receipt.gen = ctl.gen /\ receipt.op = ctl.op

\* _confirmed_host_control_generation, the receipt and the stop reason.
Capture(p) ==
    /\ ctl.pc = "claimed"
    /\ LockFree
    /\ lease[ctl.gen].st = "confirmed"
    /\ session = ctl.gen \/ (session = 0 /\ SameControl)
    /\ receipt' = [gen |-> ctl.gen, op |-> ctl.op,
                   st |-> IF SameControl THEN receipt.st ELSE "requested"]
    /\ mem' = [mem EXCEPT ![p].reason[ctl.gen] = ctl.op]
    /\ ctl' = [ctl EXCEPT !.pc = "captured", !.by = p, !.exp = session]
    /\ UNCHANGED <<osVars, session, lease, thread, spent>>

\* The stop failed or could not be confirmed: the reason is taken back, the claim stays.
GiveUp ==
    /\ mem' = [mem EXCEPT ![ctl.by].reason[ctl.gen] = "none"]
    /\ ctl' = [NoControl EXCEPT !.pc = "claimed", !.op = ctl.op, !.gen = ctl.gen]

LocalProc(p) == IF mem[p].proc # 0 /\ Alive(mem[p].proc) THEN mem[p].proc ELSE 0

\* The first half of _stop_active_process: which process, and by which authority.
Aim ==
    /\ ctl.pc = "captured"
    /\ IF session # ctl.exp \/ LocalProc(ctl.by) \notin {0, ctl.gen} THEN GiveUp /\ UNCHANGED session
       ELSE IF Alive(ctl.gen)
            THEN /\ ctl' = [ctl EXCEPT !.pc = "aimed", !.proc = mem[ctl.by].proc,
                                       !.local = (LocalProc(ctl.by) # 0)]
                 /\ UNCHANGED <<mem, session>>
            ELSE IF CanFinalize(ctl.by, mem[ctl.by].proc, ctl.exp, ctl.gen)
                 THEN /\ FinalizeOwned(ctl.by, TRUE)
                      /\ ctl' = [ctl EXCEPT !.pc = "stopped"]
                 ELSE GiveUp /\ UNCHANGED session
    /\ UNCHANGED <<osVars, receipt, lease, thread, spent>>

\* signal_exact_generation: the file and the handle are still what was captured.
StillExact ==
    /\ session = ctl.exp
    /\ IF ctl.local THEN mem[ctl.by].proc = ctl.proc ELSE LocalProc(ctl.by) = 0

Term ==
    /\ ctl.pc = "aimed"
    /\ IF ~StillExact THEN GiveUp /\ UNCHANGED osVars
       ELSE /\ UNCHANGED mem
            /\ ctl' = [ctl EXCEPT !.pc = IF Alive(ctl.gen) THEN "termed" ELSE "gone"]
            /\ IF Alive(ctl.gen) THEN Terminate(ctl.gen) ELSE UNCHANGED osVars
    /\ UNCHANGED <<session, receipt, lease, thread, spent>>

\* Five seconds later the supervisor is still busy with its harness.
Kill ==
    /\ ctl.pc = "termed"
    /\ Alive(ctl.gen) /\ ctl.gen \in Stubborn
    /\ IF ~StillExact THEN GiveUp /\ UNCHANGED osVars
       ELSE KillSupervisor(ctl.gen) /\ UNCHANGED <<mem, ctl>>
    /\ UNCHANGED <<session, receipt, lease, thread, spent>>

\* A signal or a probe fails (EPERM, ps): the outcome is uncertain.
Uncertain ==
    /\ ctl.pc \in {"aimed", "termed"}
    /\ Mishap
    /\ GiveUp
    /\ UNCHANGED <<osVars, session, receipt, lease, thread>>

FinalizeStop ==
    /\ ctl.pc = "gone" \/ (ctl.pc = "termed" /\ ~Alive(ctl.gen))
    /\ IF CanFinalize(ctl.by, ctl.proc, ctl.exp, ctl.gen)
       THEN FinalizeOwned(ctl.by, TRUE) /\ ctl' = [ctl EXCEPT !.pc = "stopped"]
       ELSE GiveUp /\ UNCHANGED session
    /\ UNCHANGED <<osVars, receipt, lease, thread, spent>>

ConfirmReceipt ==
    /\ ctl.pc = "stopped"
    /\ receipt' = [receipt EXCEPT !.st = "confirmed"]
    /\ ctl' = [ctl EXCEPT !.pc = "receipted"]
    /\ UNCHANGED <<osVars, session, mem, lease, thread, spent>>

\* The claim is completed, by the control or because the run's own result won.
Complete ==
    /\ \/ ctl.pc = "receipted"
       \/ ctl.pc = "claimed" /\ At(ctl.gen, "done")
    /\ lease' = [lease EXCEPT ![ctl.gen].st = "released"]
    /\ ctl' = NoControl
    /\ UNCHANGED <<osVars, session, receipt, mem, thread, spent>>

-----------------------------------------------------------------------------
(* Crashes, and the reconciliation of stale leases.                        *)

\* The memory goes, the supervisors stay; the claim of a control is durable.
ProcessCrash(p) ==
    /\ Absence
    /\ mem' = [mem EXCEPT ![p] = NoMem]
    /\ thread' = [g \in Gens |->
         IF thread[g].by # p \/ Idle(g) THEN thread[g]
         ELSE [thread[g] EXCEPT !.pc = IF @ = "begun" THEN "unstarted" ELSE "lost"]]
    /\ lease' = [g \in Gens |-> [lease[g] EXCEPT !.stale = @ \/ lease[g].by = p]]
    /\ ctl' = IF ctl.by # p THEN ctl
              ELSE [NoControl EXCEPT !.pc = "claimed", !.op = ctl.op, !.gen = ctl.gen]
    /\ UNCHANGED <<osVars, session, receipt>>

\* A process sleeps longer than the lease's life and goes on afterwards.
Stall(p) ==
    /\ Absence
    /\ \E g \in Gens : lease[g].by = p /\ ~lease[g].stale
    /\ lease' = [g \in Gens |-> [lease[g] EXCEPT !.stale = @ \/ lease[g].by = p]]
    /\ UNCHANGED <<osVars, session, receipt, mem, thread, ctl>>

\* A lease the claim of a control fences is left to the control.
Reconcilable(g, st) == lease[g].st = st /\ lease[g].stale /\ ctl.gen # g

ReleaseLease(g) == lease' = [lease EXCEPT ![g].st = "released"]

\* Claimed and never invoked: nothing was launched.
RequeueUninvoked(g) ==
    /\ Reconcilable(g, "reserved") /\ LockFree
    /\ thread[g].pc \in {"begun", "unstarted"}
    /\ ReleaseLease(g)
    /\ UNCHANGED <<osVars, session, receipt, mem, thread, ctl, spent>>

\* The session of the reservation's own token names a live process: it is adopted.
Survives(g) == session = g /\ Alive(g)
Adopt(g) ==
    /\ Reconcilable(g, "reserved") /\ LockFree
    /\ At(g, "lost") /\ Survives(g)
    /\ lease' = [lease EXCEPT ![g].st = "confirmed", ![g].ident = TRUE]
    /\ UNCHANGED <<osVars, session, receipt, mem, thread, ctl, spent>>

\* cleanup_unconfirmed_run_start, then the lease is released and the run queued.
CleanUp(p, g) ==
    /\ StopAndWait(g)
    /\ session' = IF session = g THEN 0 ELSE session
    /\ mem' = IF session = g THEN [mem EXCEPT ![p].slot = ReleasedSlot(mem[p].slot, g)]
            ELSE mem
    /\ ReleaseLease(g)
    /\ UNCHANGED <<receipt, thread, ctl, spent>>

CleanReserved(p, g) ==
    /\ Reconcilable(g, "reserved") /\ LockFree
    /\ At(g, "lost") /\ ~Survives(g) /\ lease[g].ident
    /\ CleanUp(p, g)

\* Invoked, and no identity on the lease: what it started cannot be proved absent.
MarkUnconfirmed(g) ==
    /\ Reconcilable(g, "reserved") /\ LockFree
    /\ At(g, "lost") /\ ~Survives(g) /\ ~lease[g].ident
    /\ lease' = [lease EXCEPT ![g].st = "unconfirmed"]
    /\ UNCHANGED <<osVars, session, receipt, mem, thread, ctl, spent>>

CleanUnconfirmed(p, g) ==
    /\ Reconcilable(g, "unconfirmed") /\ LockFree
    /\ lease[g].ident
    /\ CleanUp(p, g)

\* A confirmed generation whose process is gone; a live one keeps its lease.
RetireDead(p, g) ==
    /\ Reconcilable(g, "confirmed")
    /\ ~Survives(g)
    /\ CleanUp(p, g)

\* reconcile_worker: a live process gets its permit and a place in its lane; without
\* one the lane is given back.  A mission is known to its own process only.
Reobserve(p) ==
    LET live == \/ LocalProc(p) # 0
                \/ session # 0 /\ lane = "conversation" /\ Alive(session)
        slot == mem[p].slot IN
    /\ files' = IF live /\ session # 0 THEN Permitted(RunOf[session]) ELSE files
    /\ mem' = [mem EXCEPT ![p].slot =
                 IF live THEN IF slot.listed = "set" THEN slot
                              ELSE [slot EXCEPT !.lane = TRUE, !.listed = "name"]
                 ELSE [slot EXCEPT !.lane = FALSE,
                                   !.listed = IF slot.lane /\ @ = "name" THEN "no" ELSE @]]
    /\ <<files', mem'>> # <<files, mem>>
    /\ UNCHANGED <<lane, sup, child, session, receipt, lease, thread, ctl, spent>>

-----------------------------------------------------------------------------
SupervisorStep(g) ==
    \/ SupervisorReady(g) \/ SupervisorAuthors(g) \/ HandshakeTimesOut(g)
    \/ HarnessEnds(g) \/ SupervisorStops(g)

ThreadStep(g) ==
    \/ \E p \in Procs : Begin(p, g)
    \/ Invoke(g) \/ Spawn(g) \/ SeeReady(g) \/ NotReady(g) \/ Publish(g) \/ Identify(g)
    \/ Confirm(g) \/ Reject(g) \/ RejectKills(g) \/ RejectCleans(g) \/ RejectUnconfirmed(g)
    \/ Permit(g) \/ Ended(g) \/ Finish(g) \/ Report(g) \/ SettleRun(g)

ControlStep ==
    \/ \E op \in Ops : ClaimControl(op)
    \/ \E p \in Procs : Capture(p)
    \/ Aim \/ Term \/ Kill \/ Uncertain \/ FinalizeStop \/ ConfirmReceipt \/ Complete

ReconcileStep(p, g) ==
    \/ RequeueUninvoked(g) \/ Adopt(g) \/ CleanReserved(p, g) \/ MarkUnconfirmed(g)
    \/ CleanUnconfirmed(p, g) \/ RetireDead(p, g)

ProcessNext ==
    \/ \E g \in Gens : SupervisorStep(g) \/ ThreadStep(g)
    \/ ControlStep
    \/ \E p \in Procs : ProcessCrash(p) \/ Stall(p) \/ Reobserve(p)
    \/ \E p \in Procs, g \in Gens : ReconcileStep(p, g)

ProcessSpec == ProcessInit /\ [][ProcessNext]_pvars

-----------------------------------------------------------------------------
\* A released lease leaves no supervisor behind, whoever released it: the run thread, a
\* control, or a reconciliation (release_host_run_lease and its callers).
ReleasedIsDead == \A g \in Gens : lease[g].st = "released" => ~Alive(g)

\* A live confirmed generation can be stopped: the active-session file names it, and so does
\* the handle of the process whose thread waits for it, whatever finishes or is cleaned up
\* late in another process (_finalize_owned_host_generation, cleanup_unconfirmed_run_start).
LiveIsReachable ==
    \A g \in Gens : lease[g].st = "confirmed" /\ Alive(g) =>
        /\ session = g
        /\ thread[g].pc \in {"confirmed", "running"} => mem[thread[g].by].proc = g

\* A confirmed control receipt names a dead supervisor, and a harness that outlives it is one
\* that ignores SIGTERM (_write_host_control_receipt).
ReceiptIsTrue ==
    receipt.st = "confirmed" => /\ ~Alive(receipt.gen)
                                /\ child[receipt.gen] = "alive" => receipt.gen \in Stubborn

\* Whoever releases a lease, stops a process or answers a control names the right generation,
\* and a live generation stays within the reach of a control (_stop_active_process,
\* _finalize_owned_host_generation, reconcile_host_run_leases, _write_host_control_receipt).
StopsExact == ReleasedIsDead /\ LiveIsReachable /\ ReceiptIsTrue
=============================================================================
