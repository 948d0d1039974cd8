--------------------------- MODULE WorkspaceProofs ---------------------------
(* Proofs about the beginnings and the ends of a workspace.  WorkspaceEnd: its end is announced only when its
   links are revoked and none opens after that, its rows never come back, and its storage outlives them, whichever threads
   apply the effects and collect the workspace and wherever they die.  Intake: a key stands for
   one piece of work and the quota of workspaces is kept, however calls race and are repeated.
   Copies: a key makes one workspace and a whole one.  A project belongs to the call that reserved
   it, a reported copy is never taken apart again, and while calls do not outlive their reservation
   one of them is active and the reservation names the only project that can have a worker. *)
EXTENDS WorkspaceEnd, Intake, Copies, FiniteSetTheorems, WellFoundedInduction, TLAPS

WsStates == {"ready", "running", "needs_input", "gc_claimed", "deleted"} \cup Closed
WsRow == [st : WsStates, kind : {"ephemeral", "named"}, fresh : BOOLEAN]
MissionRow == [st : {"none", "queued", "claimed", "running", "needs_input", "over"},
               count : 0 .. MaxRuns]
TombRow == [phase : {"none", "claimed", "cleanup_pending", "completed"},
            by : Threads \cup {"none"}, live : BOOLEAN, from : WsStates \cup {"none"},
            root : BOOLEAN]
LinkRow == [ref : BOOLEAN, revoked : BOOLEAN, late : BOOLEAN]
Pcs == {"idle", "apply", "mark", "stop_compute", "finalize", "release", "unlink", "cleanup",
        "remove", "record", "verify", "insert"}
ProcRow == [pc : Pcs, kind : EffectKinds \cup {"none"}]

(* The types that the argument needs.                                        *)
CoreTypes ==
    /\ ws \in WsRow /\ mission \in MissionRow
    /\ tomb \in TombRow
    /\ links \in LinkRow
    /\ notices \in Nat
    /\ proc \in [Threads -> ProcRow]

(* An announced workspace is revoked, and no link of it opened late.         *)
LinksDead ==
    /\ notices > 0 => links.revoked
    /\ ~links.late

(* A workspace whose rows are gone has no run on its way.                    *)
GoneIsOver == Gone => mission.st \in {"none", "over"}

(* Only a collected workspace is cleaned up.                                 *)
CleanupIsLate ==
    /\ tomb.phase \in {"cleanup_pending", "completed"} => Gone
    /\ \A p \in Threads : proc[p].pc \in {"unlink", "cleanup", "remove", "record"} => Gone
    /\ ~storage => Gone

(* The state that a tombstone gives back is one of a workspace that exists.  *)
TombKeepsState == tomb.phase = "claimed" => tomb.from \notin {"none", "deleted"}

WsInv == CoreTypes /\ LinksDead /\ GoneIsOver /\ CleanupIsLate /\ TombKeepsState

(* What every step does to the rows: once gone, they stay gone.              *)
StaysGone == Gone => Gone'

LEMMA InitInv == WsInit => WsInv
<1> SUFFICES ASSUME WsInit PROVE WsInv OBVIOUS
<1>1. CoreTypes
  <2>1. ws \in WsRow BY DEF WsInit, WsRow, WsStates
  <2>2. mission \in MissionRow BY WsBounds DEF WsInit, MissionRow
  <2>3. tomb \in TombRow BY DEF WsInit, NoTomb, TombRow
  <2>4. links \in LinkRow /\ notices \in Nat BY DEF WsInit, LinkRow
  <2>5. proc \in [Threads -> ProcRow] BY DEF WsInit, Idle, ProcRow, Pcs
  <2> QED BY <2>1, <2>2, <2>3, <2>4, <2>5 DEF CoreTypes
<1>2. LinksDead BY DEF WsInit, LinksDead
<1>3. GoneIsOver BY DEF WsInit, GoneIsOver
<1>4. CleanupIsLate /\ TombKeepsState
  BY DEF WsInit, CleanupIsLate, TombKeepsState, NoTomb, Idle
<1> QED BY <1>1, <1>2, <1>3, <1>4 DEF WsInv

(* A step of the workspace: its rows are used while they are there.          *)
LEMMA UseFrame ==
    ASSUME WsInv, ws' \in WsRow, mission' \in MissionRow,
           UNCHANGED <<tomb, storage, links, notices, proc>>,
           Gone => Gone' /\ mission' = mission, ~Gone => ~Gone'
    PROVE  WsInv' /\ StaysGone
<1>1. CoreTypes' BY DEF WsInv, CoreTypes
<1>2. LinksDead' BY DEF WsInv, LinksDead
<1>3. GoneIsOver' BY DEF WsInv, GoneIsOver
<1>4. CleanupIsLate' /\ TombKeepsState' BY DEF WsInv, CleanupIsLate, TombKeepsState
<1> QED BY <1>1, <1>2, <1>3, <1>4 DEF WsInv, StaysGone

LEMMA UseStep ==
    ASSUME WsInv, CreateRun \/ DispatchRun \/ InvokeRun \/ LeaveRun \/ Block \/ Favour \/ Age
    PROVE  WsInv' /\ StaysGone
<1>t. ws \in WsRow /\ mission \in MissionRow BY DEF WsInv, CoreTypes
<1>g. Gone => mission.st \in {"none", "over"} BY DEF WsInv, GoneIsOver
<1>1. CASE CreateRun
  <2>1. ws' \in WsRow /\ ws'.st = ws.st /\ ~Gone BY <1>1, <1>t DEF CreateRun, WsRow
  <2>2. mission' \in MissionRow BY <1>1, <1>t, WsBounds DEF CreateRun, MissionRow
  <2> QED BY <1>1, <2>1, <2>2, UseFrame DEF CreateRun, Gone
<1>2. CASE DispatchRun
  <2>1. mission' \in MissionRow BY <1>2, <1>t DEF DispatchRun, MissionRow
  <2> QED BY <1>2, <1>t, <2>1, UseFrame DEF DispatchRun, Gone
<1>3. CASE InvokeRun
  <2>1. mission' \in MissionRow BY <1>3, <1>t DEF InvokeRun, MissionRow
  <2>2. ws' \in WsRow /\ ws'.st = "running" BY <1>3, <1>t DEF InvokeRun, WsRow, WsStates
  <2> QED BY <1>3, <2>1, <2>2, UseFrame DEF InvokeRun, Gone
<1>4. CASE LeaveRun
  <2>1. mission' \in MissionRow BY <1>4, <1>t DEF LeaveRun, MissionRow
  <2>2. ws' \in WsRow /\ (ws' = ws \/ ws'.st \in {"ready", "needs_input"})
    BY <1>4, <1>t DEF LeaveRun, WsRow, WsStates
  <2>3. ~Gone BY <1>4, <1>g DEF LeaveRun
  <2> QED BY <1>4, <2>1, <2>2, <2>3, UseFrame DEF LeaveRun, Gone
<1>5. CASE Block BY <1>5, <1>t, UseFrame DEF Block, Gone
<1>6. CASE Favour
  <2>1. ws' \in WsRow /\ ws'.st = ws.st BY <1>6, <1>t DEF Favour, WsRow
  <2> QED BY <1>6, <1>t, <2>1, UseFrame DEF Favour, Gone
<1>7. CASE Age
  <2>1. ws' \in WsRow /\ ws'.st = ws.st BY <1>7, <1>t DEF Age, WsRow
  <2> QED BY <1>7, <1>t, <2>1, UseFrame DEF Age, Gone
<1> QED BY <1>1, <1>2, <1>3, <1>4, <1>5, <1>6, <1>7

LEMMA TerminationStep ==
    ASSUME WsInv, BeginTermination \/ FailTermination \/ CompleteTermination
    PROVE  WsInv' /\ StaysGone
<1>t. ws \in WsRow /\ mission \in MissionRow BY DEF WsInv, CoreTypes
<1>1. CASE BeginTermination
  <2>1. mission' \in MissionRow BY <1>1, <1>t DEF BeginTermination, MissionRow
  <2>2. ws' \in WsRow /\ ws'.st = "terminating"
    BY <1>1, <1>t DEF BeginTermination, WsRow, WsStates, Closed
  <2> QED BY <1>1, <2>1, <2>2, UseFrame DEF BeginTermination, Gone
<1>2. CASE FailTermination
  <2>2. ws' \in WsRow /\ ws'.st = "termination_failed"
    BY <1>2, <1>t DEF FailTermination, WsRow, WsStates, Closed
  <2> QED BY <1>2, <1>t, <2>2, UseFrame DEF FailTermination, Gone
<1>3. CASE CompleteTermination
  <2>2. ws' \in WsRow /\ ws'.st = "terminated"
    BY <1>3, <1>t DEF CompleteTermination, WsRow, WsStates, Closed
  <2> QED BY <1>3, <1>t, <2>2, UseFrame DEF CompleteTermination, Gone
<1> QED BY <1>1, <1>2, <1>3

-----------------------------------------------------------------------------
(* A thread moves to pc, or gives up.                                        *)
LEMMA ThreadMoves ==
    ASSUME CoreTypes, NEW p \in Threads, NEW pc \in Pcs, Step(p, pc)
    PROVE  /\ proc' \in [Threads -> ProcRow]
           /\ proc'[p].pc = pc
           /\ \A q \in Threads \ {p} : proc'[q] = proc[q]
BY DEF CoreTypes, ProcRow, Step

LEMMA ThreadEnds ==
    ASSUME CoreTypes, NEW p \in Threads, Done(p)
    PROVE  /\ proc' \in [Threads -> ProcRow]
           /\ proc'[p].pc = "idle"
           /\ \A q \in Threads \ {p} : proc'[q] = proc[q]
BY DEF CoreTypes, ProcRow, Done, Idle, Pcs

(* A step of a thread that applies an effect: it touches the links, the notices and itself. *)
LEMMA EffectFrame ==
    ASSUME WsInv, NEW p \in Threads, UNCHANGED <<ws, mission, tomb, storage>>,
           links' \in LinkRow, notices' \in Nat, LinksDead',
           proc' \in [Threads -> ProcRow],
           proc'[p].pc \notin {"unlink", "cleanup", "remove", "record"} \/ Gone,
           \A q \in Threads \ {p} : proc'[q] = proc[q]
    PROVE  WsInv' /\ StaysGone
<1>1. CoreTypes' BY DEF WsInv, CoreTypes
<1>2. GoneIsOver' /\ TombKeepsState' /\ StaysGone
  BY DEF WsInv, GoneIsOver, TombKeepsState, Gone, StaysGone
<1>3. CleanupIsLate' BY DEF WsInv, CleanupIsLate, Gone
<1> QED BY <1>1, <1>2, <1>3 DEF WsInv

(* A client reads, opens or inserts.  A link that opens after the announcement was not revoked when
   it was verified: the invariant has no such workspace.                     *)
LEMMA LinkStep == ASSUME WsInv, NEW p \in Clients, UseLink(p) PROVE WsInv' /\ StaysGone
<1>t. CoreTypes /\ p \in Threads /\ {"verify", "insert"} \subseteq Pcs BY DEF WsInv, Threads, Pcs
<1>k. UNCHANGED <<links, notices>> => links' \in LinkRow /\ notices' \in Nat /\ LinksDead'
  BY <1>t DEF CoreTypes, WsInv, LinksDead
<1>1. CASE ReadWorker(p)
  BY <1>1, <1>k, <1>t, ThreadMoves, EffectFrame DEF ReadWorker
<1>2. CASE ReadRevocation(p)
  <2>1. UNCHANGED <<ws, mission, tomb, storage, notices>> BY <1>2 DEF ReadRevocation
  <2>2. CASE Done(p) /\ UNCHANGED links
    BY <2>1, <2>2, <1>k, <1>t, ThreadEnds, EffectFrame
  <2>3. CASE Step(p, "insert") /\ UNCHANGED links
    BY <2>1, <2>3, <1>k, <1>t, ThreadMoves, EffectFrame
  <2>4. CASE Done(p) /\ links' = [links EXCEPT !.late = @ \/ (~links.revoked /\ notices > 0)]
    <3>1. ~links.late /\ ~(~links.revoked /\ notices > 0) BY DEF WsInv, LinksDead
    <3>2. links' = [links EXCEPT !.late = FALSE] BY <2>4, <3>1
    <3>3. links' \in LinkRow /\ links'.revoked = links.revoked /\ ~links'.late
      BY <3>2, <1>t DEF CoreTypes, LinkRow
    <3>4. notices' \in Nat /\ LinksDead' BY <2>1, <3>3, <1>t DEF CoreTypes, WsInv, LinksDead
    <3> QED BY <2>1, <2>4, <3>3, <3>4, <1>t, ThreadEnds, EffectFrame
  <2> QED BY <1>2, <2>2, <2>3, <2>4 DEF ReadRevocation
<1>3. CASE InsertRef(p)
  <2>1. links' = [links EXCEPT !.ref = TRUE] /\ Done(p)
        /\ UNCHANGED <<ws, mission, tomb, storage, notices>>
    BY <1>3 DEF InsertRef
  <2>2. links' \in LinkRow /\ links'.revoked = links.revoked /\ links'.late = links.late
    BY <2>1, <1>t DEF CoreTypes, LinkRow
  <2>3. notices' \in Nat /\ LinksDead' BY <2>1, <2>2, <1>t DEF CoreTypes, WsInv, LinksDead
  <2> QED BY <2>1, <2>2, <2>3, <1>t, ThreadEnds, EffectFrame
<1> QED BY <1>1, <1>2, <1>3 DEF UseLink

(* A revocation keeps what is known of the links.                            *)
LEMMA Revoked ==
    ASSUME WsInv, links' = [links EXCEPT !.ref = FALSE, !.revoked = TRUE], notices' = notices
    PROVE  links' \in LinkRow /\ notices' \in Nat /\ LinksDead'
<1>1. links \in LinkRow /\ notices \in Nat /\ ~links.late BY DEF WsInv, CoreTypes, LinksDead
<1>2. links' \in LinkRow /\ links'.revoked /\ links'.late = links.late BY <1>1 DEF LinkRow
<1> QED BY <1>1, <1>2 DEF LinksDead

LEMMA EffectStep == ASSUME WsInv, NEW p \in Replayers, Replay(p) PROVE WsInv' /\ StaysGone
<1>t. CoreTypes /\ p \in Threads BY DEF WsInv, Threads
<1>k. UNCHANGED <<links, notices>> =>
         links' \in LinkRow /\ notices' \in Nat /\ LinksDead'
  BY <1>t DEF CoreTypes, WsInv, LinksDead
<1>1. ASSUME NEW k \in EffectKinds, ClaimEffect(p, k) PROVE WsInv' /\ StaysGone
  <2>1. proc' = [proc EXCEPT ![p] = [pc |-> "apply", kind |-> k]] BY <1>1 DEF ClaimEffect
  <2>2. /\ proc' \in [Threads -> ProcRow] /\ proc'[p].pc = "apply"
        /\ \A q \in Threads \ {p} : proc'[q] = proc[q]
    BY <2>1, <1>t DEF CoreTypes, ProcRow, Pcs
  <2> QED BY <1>1, <1>k, <1>t, <2>2, EffectFrame DEF ClaimEffect
<1>2. CASE Revoke(p)
  <2>1. links' = [links EXCEPT !.ref = FALSE, !.revoked = TRUE] /\ Step(p, "mark")
        /\ UNCHANGED <<ws, mission, tomb, storage, notices>>
    BY <1>2 DEF Revoke
  <2>2. links' \in LinkRow /\ notices' \in Nat /\ LinksDead' BY <2>1, <1>t, Revoked
  <2>3. "mark" \in Pcs BY DEF Pcs
  <2> QED BY <2>1, <2>2, <2>3, <1>t, ThreadMoves, EffectFrame
<1>3. CASE Announce(p)
  <2>1. notices' = 1 /\ links.revoked /\ Step(p, "mark")
        /\ UNCHANGED <<ws, mission, tomb, storage, links>>
    BY <1>3 DEF Announce, RevocationDone
  <2>2. links' \in LinkRow /\ notices' \in Nat /\ LinksDead'
    BY <2>1, <1>t DEF CoreTypes, LinksDead, WsInv
  <2>3. "mark" \in Pcs BY DEF Pcs
  <2> QED BY <2>1, <2>2, <2>3, <1>t, ThreadMoves, EffectFrame
<1>4. CASE MarkApplied(p)
  BY <1>4, <1>k, <1>t, ThreadEnds, EffectFrame DEF MarkApplied
<1>5. CASE RetryEffect(p)
  BY <1>5, <1>k, <1>t, ThreadEnds, EffectFrame DEF RetryEffect
<1> QED BY <1>1, <1>2, <1>3, <1>4, <1>5 DEF Replay

-----------------------------------------------------------------------------
(* Collection.                                                               *)

(* A step of a collector that leaves links and notices alone.                *)
LEMMA CollectFrame ==
    ASSUME WsInv, NEW p \in Threads, UNCHANGED <<links, notices>>,
           ws' \in WsRow, mission' \in MissionRow, tomb' \in TombRow, TombKeepsState',
           GoneIsOver', StaysGone, ~storage' => Gone',
           tomb'.phase \in {"cleanup_pending", "completed"} => Gone',
           proc' \in [Threads -> ProcRow],
           proc'[p].pc \notin {"unlink", "cleanup", "remove", "record"} \/ Gone',
           \A q \in Threads \ {p} : proc'[q] = proc[q]
    PROVE  WsInv' /\ StaysGone
<1>1. CoreTypes' BY DEF WsInv, CoreTypes
<1>2. LinksDead' BY DEF WsInv, LinksDead
<1>3. CleanupIsLate' BY DEF WsInv, CleanupIsLate, StaysGone
<1> QED BY <1>1, <1>2, <1>3 DEF WsInv

LEMMA ClaimWorkspaceStep ==
    ASSUME WsInv, NEW p \in Threads, ClaimWorkspace(p)
    PROVE  WsInv' /\ StaysGone
<1>t. CoreTypes /\ ws \in WsRow /\ tomb \in TombRow BY DEF WsInv, CoreTypes
<1>u. ~Gone /\ UNCHANGED <<mission, storage, links, notices>>
  BY DEF ClaimWorkspace, Eligible
<1>s. storage /\ tomb.phase \notin {"cleanup_pending", "completed"}
  BY <1>u DEF WsInv, CleanupIsLate
<1>m. mission' \in MissionRow /\ StaysGone BY <1>t, <1>u DEF CoreTypes, StaysGone
<1>p. "stop_compute" \in Pcs BY DEF Pcs
<1>f. ASSUME ws' \in WsRow, ~Gone', tomb' \in TombRow, TombKeepsState',
             tomb'.phase \notin {"cleanup_pending", "completed"},
             Step(p, "stop_compute") \/ proc' = proc
      PROVE  WsInv' /\ StaysGone
  <2>1. GoneIsOver' BY <1>f DEF GoneIsOver
  <2>2. proc' = proc => /\ proc' \in [Threads -> ProcRow]
                        /\ proc'[p].pc \notin {"unlink", "cleanup", "remove", "record"}
                        /\ \A q \in Threads \ {p} : proc'[q] = proc[q]
    BY <1>t, <1>u DEF CoreTypes, WsInv, CleanupIsLate
  <2> QED BY <1>f, <1>m, <1>p, <1>s, <1>t, <1>u, <2>1, <2>2, ThreadMoves, CollectFrame
<1>1. ASSUME NEW root \in BOOLEAN,
             tomb' = [phase |-> "claimed", by |-> p, live |-> TRUE, from |-> ws.st, root |-> root],
             ws' = [ws EXCEPT !.st = "gc_claimed"], Step(p, "stop_compute")
      PROVE  WsInv' /\ StaysGone
  <2>1. ws' \in WsRow /\ ~Gone' BY <1>1, <1>t DEF WsRow, WsStates, Gone
  <2>2. tomb' \in TombRow /\ tomb'.phase = "claimed" /\ TombKeepsState'
    BY <1>1, <1>t, <1>u DEF TombRow, WsRow, WsStates, Closed, TombKeepsState, Gone
  <2> QED BY <1>1, <2>1, <2>2, <1>f
<1>2. CASE tomb.phase = "claimed" /\ tomb' = NoTomb /\ ws' = [ws EXCEPT !.st = tomb.from] /\ UNCHANGED proc
  <2>1. tomb.from \in WsStates /\ tomb.from # "deleted"
    BY <1>2, <1>t DEF WsInv, TombKeepsState, TombRow
  <2>2. ws' \in WsRow /\ ~Gone' BY <1>2, <1>t, <2>1 DEF WsRow, Gone
  <2>3. tomb' \in TombRow /\ tomb'.phase = "none" /\ TombKeepsState'
    BY <1>2 DEF TombRow, NoTomb, TombKeepsState
  <2> QED BY <1>2, <2>2, <2>3, <1>f
<1>3. ASSUME NEW root \in BOOLEAN, tomb' = [tomb EXCEPT !.by = p, !.live = TRUE, !.root = root],
             Step(p, "stop_compute"), UNCHANGED ws
      PROVE  WsInv' /\ StaysGone
  <2>1. tomb' \in TombRow /\ tomb'.phase = tomb.phase /\ tomb'.from = tomb.from
    BY <1>3, <1>t DEF TombRow
  <2>2. TombKeepsState' BY <2>1 DEF WsInv, TombKeepsState
  <2> QED BY <1>3, <1>t, <1>u, <1>s, <2>1, <2>2, <1>f DEF Gone
<1> QED BY <1>1, <1>2, <1>3 DEF ClaimWorkspace

(* Steps that leave the rows alone.                                          *)
LEMMA RowsFrame ==
    ASSUME WsInv, NEW p \in Threads, UNCHANGED <<ws, mission, links, notices>>,
           tomb' \in TombRow, TombKeepsState', ~storage' => Gone,
           tomb'.phase \in {"cleanup_pending", "completed"} => Gone,
           proc' \in [Threads -> ProcRow],
           proc'[p].pc \notin {"unlink", "cleanup", "remove", "record"} \/ Gone,
           \A q \in Threads \ {p} : proc'[q] = proc[q]
    PROVE  WsInv' /\ StaysGone
<1>1. ws' \in WsRow /\ mission' \in MissionRow BY DEF WsInv, CoreTypes
<1>2. GoneIsOver' /\ StaysGone /\ (Gone => Gone') BY DEF WsInv, GoneIsOver, StaysGone, Gone
<1> QED BY <1>1, <1>2, CollectFrame

LEMMA TombKept ==
    ASSUME WsInv, tomb' = tomb
    PROVE  /\ tomb' \in TombRow /\ TombKeepsState'
           /\ tomb'.phase \in {"cleanup_pending", "completed"} => Gone
BY DEF WsInv, CoreTypes, TombKeepsState, CleanupIsLate

LEMMA StopStep ==
    ASSUME WsInv, NEW p \in Threads, StopCompute(p) \/ StopComputeFails(p) \/ SkipCleanup(p)
    PROVE  WsInv' /\ StaysGone
<1>t. CoreTypes /\ (~storage => Gone) BY DEF WsInv, CleanupIsLate
<1>p. "finalize" \in Pcs /\ "release" \in Pcs BY DEF Pcs
<1>1. CASE StopCompute(p)
  BY <1>1, <1>t, <1>p, TombKept, ThreadMoves, RowsFrame DEF StopCompute
<1>2. CASE StopComputeFails(p)
  BY <1>2, <1>t, <1>p, TombKept, ThreadMoves, RowsFrame DEF StopComputeFails
<1>3. CASE SkipCleanup(p)
  BY <1>3, <1>t, <1>p, TombKept, ThreadEnds, RowsFrame DEF SkipCleanup
<1> QED BY <1>1, <1>2, <1>3

LEMMA FinalizeStep ==
    ASSUME WsInv, NEW p \in Threads, FinalizeGC(p)
    PROVE  WsInv' /\ StaysGone
<1>t. CoreTypes /\ ws \in WsRow /\ mission \in MissionRow /\ tomb \in TombRow BY DEF WsInv, CoreTypes
<1>p. "unlink" \in Pcs /\ "release" \in Pcs BY DEF Pcs
<1>1. CASE OwnTomb(p, "claimed") /\ Eligible /\ ws.st = "gc_claimed" /\ ~HasBlocker
  <2>1. /\ ws' = [ws EXCEPT !.st = "deleted"]
        /\ mission' = [mission EXCEPT !.st = IF mission.st = "none" THEN mission.st ELSE "over"]
        /\ tomb' = [tomb EXCEPT !.phase = "cleanup_pending"]
        /\ Step(p, "unlink") /\ UNCHANGED <<storage, links, notices>>
    BY <1>1 DEF FinalizeGC
  <2>2. ws' \in WsRow /\ Gone' BY <2>1, <1>t DEF WsRow, WsStates, Gone
  <2>3. mission' \in MissionRow /\ mission'.st \in {"none", "over"} BY <2>1, <1>t DEF MissionRow
  <2>4. tomb' \in TombRow /\ TombKeepsState' BY <2>1, <1>t DEF TombRow, TombKeepsState
  <2>5. GoneIsOver' /\ StaysGone BY <2>2, <2>3 DEF GoneIsOver, StaysGone
  <2> QED BY <2>1, <2>2, <2>3, <2>4, <2>5, <1>p, <1>t, ThreadMoves, CollectFrame
<1>2. CASE ~(OwnTomb(p, "claimed") /\ Eligible /\ ws.st = "gc_claimed" /\ ~HasBlocker)
  <2>1. Step(p, "release") /\ UNCHANGED <<ws, mission, tomb, storage, links, notices>>
    BY <1>2 DEF FinalizeGC
  <2>2. ~storage' => Gone BY <2>1 DEF WsInv, CleanupIsLate
  <2> QED BY <2>1, <2>2, <1>p, <1>t, TombKept, ThreadMoves, RowsFrame
<1> QED BY <1>1, <1>2

LEMMA ReleaseStep ==
    ASSUME WsInv, NEW p \in Threads, ReleaseGC(p)
    PROVE  WsInv' /\ StaysGone
<1>t. CoreTypes /\ ws \in WsRow /\ tomb \in TombRow BY DEF WsInv, CoreTypes
<1>u. Done(p) /\ UNCHANGED <<mission, storage, links, notices>> BY DEF ReleaseGC
<1>s. ~storage' => Gone BY <1>u DEF WsInv, CleanupIsLate
<1>1. CASE OwnTomb(p, "claimed") /\ ws.st = "gc_claimed"
  <2>1. tomb' = NoTomb /\ ws' = [ws EXCEPT !.st = tomb.from, !.fresh = FALSE]
    BY <1>1 DEF ReleaseGC
  <2>2. tomb.from \in WsStates /\ tomb.from # "deleted"
    BY <1>1, <1>t DEF WsInv, TombKeepsState, TombRow, OwnTomb
  <2>3. ws' \in WsRow /\ ~Gone' /\ ~Gone BY <1>1, <2>1, <2>2, <1>t DEF WsRow, Gone
  <2>4. tomb' \in TombRow /\ tomb'.phase = "none" /\ TombKeepsState'
    BY <2>1 DEF TombRow, NoTomb, TombKeepsState
  <2>5. GoneIsOver' /\ StaysGone /\ mission' \in MissionRow
    BY <2>3, <1>t, <1>u DEF GoneIsOver, StaysGone, CoreTypes
  <2> QED BY <2>3, <2>4, <2>5, <1>s, <1>t, <1>u, ThreadEnds, CollectFrame
<1>2. CASE OwnTomb(p, "claimed") /\ ws.st # "gc_claimed"
  <2>1. tomb' = NoTomb /\ ws' = ws BY <1>2 DEF ReleaseGC
  <2>4. tomb' \in TombRow /\ tomb'.phase = "none" /\ TombKeepsState'
    BY <2>1 DEF TombRow, NoTomb, TombKeepsState
  <2> QED BY <2>1, <2>4, <1>s, <1>t, <1>u, ThreadEnds, RowsFrame
<1>3. CASE ~OwnTomb(p, "claimed")
  <2>1. tomb' = tomb /\ ws' = ws BY <1>3 DEF ReleaseGC
  <2> QED BY <2>1, <1>s, <1>t, <1>u, TombKept, ThreadEnds, RowsFrame
<1> QED BY <1>1, <1>2, <1>3

LEMMA UnlinkStep ==
    ASSUME WsInv, NEW p \in Threads, Unlink(p)
    PROVE  WsInv' /\ StaysGone
<1>t. CoreTypes /\ "cleanup" \in Pcs BY DEF WsInv, Pcs
<1>g. Gone BY DEF Unlink, Busy, WsInv, CleanupIsLate
<1>1. Step(p, "cleanup") /\ UNCHANGED <<ws, mission, tomb, storage, notices>>
      /\ (links' = links \/ links' = [links EXCEPT !.ref = FALSE, !.revoked = TRUE])
  BY DEF Unlink
<1>2. links' \in LinkRow /\ notices' \in Nat /\ LinksDead'
  <2>1. CASE links' = links BY <1>1, <1>t, <2>1 DEF CoreTypes, LinksDead, WsInv
  <2>2. CASE links' = [links EXCEPT !.ref = FALSE, !.revoked = TRUE] BY <1>1, <2>2, Revoked
  <2> QED BY <1>1, <2>1, <2>2
<1> QED BY <1>1, <1>2, <1>t, <1>g, ThreadMoves, EffectFrame

LEMMA CleanupStep ==
    ASSUME WsInv, NEW p \in Threads, ClaimCleanup(p) \/ RemoveStorage(p) \/ RecordCleanup(p)
    PROVE  WsInv' /\ StaysGone
<1>t. CoreTypes /\ tomb \in TombRow /\ {"remove", "record"} \subseteq Pcs BY DEF WsInv, CoreTypes, Pcs
<1>g. Gone BY DEF ClaimCleanup, RemoveStorage, RecordCleanup, Busy, WsInv, CleanupIsLate
<1>1. CASE ClaimCleanup(p)
  <2>1. tomb' = [tomb EXCEPT !.by = p, !.live = TRUE] /\ Step(p, "remove")
        /\ tomb.phase = "cleanup_pending" /\ UNCHANGED <<ws, mission, storage, links, notices>>
    BY <1>1 DEF ClaimCleanup
  <2>2. tomb' \in TombRow /\ TombKeepsState' BY <2>1, <1>t DEF TombRow, TombKeepsState
  <2> QED BY <2>1, <2>2, <1>t, <1>g, ThreadMoves, RowsFrame
<1>2. CASE RemoveStorage(p)
  BY <1>2, <1>t, <1>g, TombKept, ThreadMoves, RowsFrame DEF RemoveStorage
<1>3. CASE RecordCleanup(p)
  <2>1. Done(p) /\ UNCHANGED <<ws, mission, storage, links, notices>>
        /\ \/ tomb' = tomb
           \/ tomb.phase = "cleanup_pending" /\
               (\/ tomb' = [tomb EXCEPT !.phase = "completed", !.by = "none", !.live = FALSE]
                \/ tomb' = [tomb EXCEPT !.by = "none", !.live = FALSE])
    BY <1>3 DEF RecordCleanup, OwnTomb
  <2>2. tomb' \in TombRow /\ TombKeepsState'
    <3>1. CASE tomb' = tomb BY <3>1, TombKept
    <3>2. CASE tomb' = [tomb EXCEPT !.phase = "completed", !.by = "none", !.live = FALSE]
      BY <3>2, <1>t DEF TombRow, TombKeepsState
    <3>3. CASE tomb.phase = "cleanup_pending" /\ tomb' = [tomb EXCEPT !.by = "none", !.live = FALSE]
      BY <3>3, <1>t DEF TombRow, TombKeepsState
    <3> QED BY <2>1, <3>1, <3>2, <3>3
  <2> QED BY <2>1, <2>2, <1>t, <1>g, ThreadEnds, RowsFrame
<1> QED BY <1>1, <1>2, <1>3

LEMMA TimeStep ==
    ASSUME WsInv, EndTomb \/ (\E k \in EffectKinds : EndLease(k)) \/ UNCHANGED wsVars
    PROVE  WsInv' /\ StaysGone
<1>t. CoreTypes /\ tomb \in TombRow BY DEF WsInv, CoreTypes
<1>1. tomb' = tomb \/ tomb' = [tomb EXCEPT !.live = FALSE]
  BY DEF EndTomb, EndLease, wsVars
<1>2. tomb' \in TombRow /\ tomb'.phase = tomb.phase /\ tomb'.from = tomb.from
  BY <1>1, <1>t DEF TombRow
<1>3. UNCHANGED <<ws, mission, storage, links, notices, proc>>
  BY DEF EndTomb, EndLease, wsVars
<1>4. CoreTypes' BY <1>2, <1>3 DEF WsInv, CoreTypes
<1>5. LinksDead' /\ GoneIsOver' /\ StaysGone BY <1>3 DEF WsInv, LinksDead, GoneIsOver, Gone, StaysGone
<1>6. CleanupIsLate' /\ TombKeepsState' BY <1>2, <1>3 DEF WsInv, CleanupIsLate, TombKeepsState, Gone
<1> QED BY <1>4, <1>5, <1>6 DEF WsInv

LEMMA CrashStep == ASSUME WsInv, NEW p \in Threads, Crash(p) PROVE WsInv' /\ StaysGone
<1>t. CoreTypes /\ (~storage => Gone) BY DEF WsInv, CleanupIsLate
<1> QED BY <1>t, TombKept, ThreadEnds, RowsFrame DEF Crash

-----------------------------------------------------------------------------
LEMMA InvStep == WsInv /\ [WsNext]_wsVars => WsInv' /\ StaysGone
<1> SUFFICES ASSUME WsInv, [WsNext]_wsVars PROVE WsInv' /\ StaysGone OBVIOUS
<1>1. CASE \E p \in Collectors : Collect(p)
  <2>1. PICK p \in Collectors : Collect(p) BY <1>1
  <2>2. p \in Threads BY DEF Threads
  <2> QED BY <2>1, <2>2, ClaimWorkspaceStep, StopStep, FinalizeStep, ReleaseStep, UnlinkStep,
             CleanupStep DEF Collect
<1>2. CASE \E p \in Replayers \cup Collectors : Crash(p) BY <1>2, CrashStep DEF Threads
<1> QED BY <1>1, <1>2, UseStep, TerminationStep, LinkStep, EffectStep, TimeStep DEF WsNext

(* The inductive invariant, for any threads and any number of runs, errors and deaths. *)
THEOREM WorkspaceEndCorrect == WsSpec => []WsInv
<1>1. WsInit => WsInv BY InitInv
<1>2. WsInv /\ [WsNext]_wsVars => WsInv' BY InvStep
<1> QED BY <1>1, <1>2, PTL DEF WsSpec

(* The end of a workspace is announced only when its signed links are revoked
   (paired_lifecycle_effect_is_applied).  A client may still insert a reference that it verified
   before the revocation (create_signed_link_ref), but none opens after the announcement, however
   many clients, and whichever half of a check they had done (resolve_signed_link_ref). *)
THEOREM AnnouncedLast == WsSpec => []AnnouncedAfterRevocation
<1>1. WsInv => AnnouncedAfterRevocation BY DEF WsInv, LinksDead, AnnouncedAfterRevocation
<1> QED BY <1>1, WorkspaceEndCorrect, PTL

(* The directory of a workspace is removed only when its rows are gone, although several
   collectors take over each other's claims and cleanups.                    *)
THEOREM StorageLast == WsSpec => []StorageOutlivesRows
<1>1. WsInv => StorageOutlivesRows BY DEF WsInv, CleanupIsLate, StorageOutlivesRows
<1> QED BY <1>1, WorkspaceEndCorrect, PTL

(* A collected workspace is never brought back: no run that leaves, no failed termination and
   no collector that gives up its claim writes its row again.                *)
THEOREM CollectedStaysGone == WsSpec => [][StaysGone]_wsVars
<1>1. WsInv /\ [WsNext]_wsVars => StaysGone BY InvStep
<1> QED BY <1>1, WorkspaceEndCorrect, PTL DEF WsSpec

-----------------------------------------------------------------------------
(* Intake: what the argument needs to know of the calls.                     *)
CallRow == [pc : {"idle", "preflight", "waiting", "counting", "counted", "reserved", "announced",
                  "found", "matched", "done"},
            found : Nat, answer : Nat]

IntakeTypes ==
    /\ call \in [Callers -> CallRow]
    /\ DOMAIN space = Ids /\ \A i \in Ids : "st" \in DOMAIN space[i]
    /\ \A d \in delegs : d.id \in Nat

(* The key and the digest under which work was made, or a caller was told so. *)
Known(c, i) == \E d \in delegs : d.id = i /\ d.key = req[c].key /\ d.dig = req[c].dig

OneOfEach == \A d, e \in delegs : d.key = e.key \/ d.origin = e.origin => d = e

AnswersKnown(c) ==
    Delegation(c) => /\ call[c].answer # NoId => Known(c, call[c].answer)
                     /\ call[c].pc \in {"reserved", "announced"} => Known(c, call[c].found)
                     /\ call[c].pc \notin {"found", "matched"}

(* Whoever counts workspaces, or has counted them, holds the lock.           *)
Counting(c) == call[c].pc \in {"counting", "counted"} => lock = {c}
CountIsTrue(c) == call[c].pc = "counted" => Workspaces < Limit

IntakeInv ==
    /\ IntakeTypes
    /\ OneOfEach
    /\ \A c \in Callers : AnswersKnown(c) /\ Counting(c) /\ CountIsTrue(c)
    /\ QuotaKept

-----------------------------------------------------------------------------
(* The number of workspaces                                                  *)

OpenOnes == {i \in Ids : space[i].st = "open"}

LEMMA OpenFinite ==
    ASSUME MaxIds \in Nat
    PROVE  IsFiniteSet(OpenOnes) /\ Workspaces = Cardinality(OpenOnes) /\ Workspaces \in Nat
<1>1. IsFiniteSet(Ids)
  BY FS_Interval DEF Ids
<1>2. IsFiniteSet(OpenOnes)
  BY <1>1, FS_Subset DEF OpenOnes
<1>3. QED BY <1>2, FS_CardinalityType DEF OpenOnes, Workspaces

LEMMA OpenCounted ==
    ASSUME MaxIds \in Nat
    PROVE  Workspaces' \in Nat
<1>1. IsFiniteSet(Ids)
  BY FS_Interval DEF Ids
<1>2. IsFiniteSet({i \in Ids : space'[i].st = "open"})
  BY <1>1, FS_Subset
<1>3. QED BY <1>2, FS_CardinalityType DEF Workspaces

(* A step that opens none keeps the number below any bound.                  *)
LEMMA NoneOpened ==
    ASSUME MaxIds \in Nat, \A i \in Ids : space'[i].st = "open" => space[i].st = "open"
    PROVE  Workspaces' <= Workspaces
<1>1. OpenOnes' \subseteq OpenOnes
  BY DEF OpenOnes
<1>2. IsFiniteSet(OpenOnes) /\ Workspaces = Cardinality(OpenOnes)
  BY OpenFinite
<1>3. Workspaces' = Cardinality(OpenOnes')
  BY DEF Workspaces, OpenOnes
<1> HIDE DEF OpenOnes
<1>4. QED BY <1>1, <1>2, <1>3, FS_Subset

LEMMA OneOpened ==
    ASSUME MaxIds \in Nat, DOMAIN space = Ids, NEW i, NEW w, space' = [space EXCEPT ![i] = w]
    PROVE  Workspaces' <= Workspaces + 1
<1>1. OpenOnes' \subseteq OpenOnes \cup {i}
  BY DEF OpenOnes
<1>2. IsFiniteSet(OpenOnes) /\ Workspaces = Cardinality(OpenOnes) /\ Workspaces \in Nat
  BY OpenFinite
<1>3. Workspaces' = Cardinality(OpenOnes')
  BY DEF Workspaces, OpenOnes
<1>4. IsFiniteSet(OpenOnes \cup {i}) /\ Cardinality(OpenOnes \cup {i}) <= Cardinality(OpenOnes) + 1
  BY <1>2, FS_AddElement
<1>5. Cardinality(OpenOnes') <= Cardinality(OpenOnes \cup {i}) /\ Cardinality(OpenOnes') \in Nat
  BY <1>1, <1>4, FS_Subset, FS_CardinalityType
<1>6. Cardinality(OpenOnes \cup {i}) \in Nat
  BY <1>4, FS_CardinalityType
<1>7. QED BY <1>2, <1>3, <1>4, <1>5, <1>6

-----------------------------------------------------------------------------
(* The least and the greatest of some workers                                *)

Less == {s \in Nat \X Nat : s[1] < s[2]}

LEMMA LeastExists ==
    ASSUME NEW S \in SUBSET Nat, S # {}
    PROVE  \E x \in S : \A y \in S : x <= y
<1>1. IsWellFoundedOn(Less, Nat)
  <2>1. Less = OpToRel(<, Nat)
    BY DEF Less, OpToRel
  <2>2. QED BY <2>1, NatLessThanWellFounded
<1>2. \A x, y \in Nat : <<y, x>> \in Less <=> y < x
  BY DEF Less
<1> HIDE DEF Less
<1>3. PICK x \in S : \A y \in S : ~(<<y, x>> \in Less)
  BY <1>1, WFMin
<1>4. ASSUME NEW y \in S PROVE x <= y
  <2>1. x \in Nat /\ y \in Nat /\ ~(y < x)
    BY <1>2, <1>3
  <2>2. QED BY <2>1
<1>5. QED BY <1>4

(* The first free worker is one.                                             *)
LEMMA FreshFree ==
    ASSUME MaxIds \in Nat, Room
    PROVE  Fresh \in Ids /\ space[Fresh] = NoWorker
<1>0. {i \in Ids : space[i] = NoWorker} \in SUBSET Nat
  BY DEF Ids
<1>1. PICK x \in {i \in Ids : space[i] = NoWorker} :
        \A y \in {i \in Ids : space[i] = NoWorker} : x <= y
  BY <1>0, LeastExists DEF Room
<1>2. \A j \in 1 .. (x - 1) : space[j] # NoWorker
  <2> SUFFICES ASSUME NEW j \in 1 .. (x - 1), space[j] = NoWorker PROVE FALSE
    OBVIOUS
  <2>1. j \in Ids /\ ~(x <= j)
    BY <1>1 DEF Ids
  <2>2. QED BY <1>1, <2>1
<1>3. \E i \in Ids : space[i] = NoWorker /\ \A j \in 1 .. (i - 1) : space[j] # NoWorker
  BY <1>1, <1>2
<1>4. QED BY <1>3 DEF Fresh

(* The newest worker of an alias is one.                                     *)
LEMMA NewestIsOne ==
    ASSUME MaxIds \in Nat, OfAlias # {}
    PROVE  NewestAlias \in OfAlias /\ NewestAlias \in Nat
<1> DEFINE Left == {MaxIds - i : i \in OfAlias}
<1>1. OfAlias \subseteq Ids /\ OfAlias \subseteq Nat /\ \A i \in OfAlias : i <= MaxIds
  BY DEF OfAlias, Ids
<1>2. Left \in SUBSET Nat /\ Left # {}
  <2>1. \A i \in OfAlias : MaxIds - i \in Nat
    BY <1>1
  <2>2. QED BY <2>1
<1>3. PICK x \in Left : \A y \in Left : x <= y
  BY <1>2, LeastExists
<1>4. PICK i \in OfAlias : x = MaxIds - i
  BY <1>3
<1>5. ASSUME NEW j \in OfAlias PROVE j <= i
  <2>1. MaxIds - i <= MaxIds - j
    BY <1>3, <1>4
  <2>2. QED BY <1>1, <2>1
<1>6. QED BY <1>1, <1>5 DEF NewestAlias

-----------------------------------------------------------------------------
(* The steps                                                                 *)

LEMMA IntakeStarts ==
    ASSUME MaxIds \in Nat, Limit \in Nat, IntakeInit
    PROVE  IntakeInv
<1>1. IntakeTypes
  BY DEF IntakeInit, IntakeTypes, CallRow, NoId, NoWorker
<1>2. \A c \in Callers : AnswersKnown(c) /\ Counting(c) /\ CountIsTrue(c)
  BY DEF IntakeInit, AnswersKnown, Counting, CountIsTrue, NoId
<1>3. OpenOnes = {}
  BY DEF IntakeInit, OpenOnes, NoWorker
<1>4. QuotaKept
  BY <1>3, OpenFinite, FS_EmptySet DEF QuotaKept
<1>5. QED BY <1>1, <1>2, <1>4 DEF IntakeInit, IntakeInv, OneOfEach

(* A call that goes on, is answered or is refused, and leaves the tables alone. *)
CallStep(c) ==
    /\ UNCHANGED <<req, delegs>> /\ DOMAIN space' = Ids
    /\ \A i \in Ids : "st" \in DOMAIN space'[i]
    /\ \A i \in Ids : space'[i].st = "open" => space[i].st = "open"
    /\ \E new \in CallRow :
         /\ call' = [call EXCEPT ![c] = new]
         /\ Delegation(c) => /\ new.answer # NoId => new.answer = call[c].answer \/ Known(c, new.answer)
                             /\ new.pc \in {"reserved", "announced"}
                                => call[c].pc \in {"reserved", "announced"} /\ new.found = call[c].found
                             /\ new.pc \notin {"found", "matched"}
         /\ new.pc = "counted" => Workspaces < Limit
         /\ new.pc \in {"counting", "counted"} => lock' = {c}
    /\ lock' = lock \/ lock = Nobody \/ lock = {c}

LEMMA CallStepKeeps ==
    ASSUME MaxIds \in Nat, Limit \in Nat, IntakeInv, NEW c \in Callers, CallStep(c)
    PROVE  IntakeInv'
<1> USE DEF IntakeInv, IntakeTypes
<1>1. PICK new \in CallRow :
         /\ call' = [call EXCEPT ![c] = new]
         /\ Delegation(c) => /\ new.answer # NoId => new.answer = call[c].answer \/ Known(c, new.answer)
                             /\ new.pc \in {"reserved", "announced"}
                                => call[c].pc \in {"reserved", "announced"} /\ new.found = call[c].found
                             /\ new.pc \notin {"found", "matched"}
         /\ new.pc = "counted" => Workspaces < Limit
         /\ new.pc \in {"counting", "counted"} => lock' = {c}
  BY DEF CallStep
<1>2. call'[c] = new /\ \A o \in Callers : o # c => call'[o] = call[o]
  BY <1>1
<1>3. IntakeTypes' /\ OneOfEach'
  BY <1>1 DEF CallStep, OneOfEach
<1>4. Workspaces' <= Workspaces /\ Workspaces \in Nat /\ Workspaces' \in Nat
  BY NoneOpened, OpenFinite, OpenCounted DEF CallStep
<1>5. \A o \in Callers : AnswersKnown(o)'
  BY <1>1, <1>2 DEF CallStep, AnswersKnown, Known, Delegation
<1>6. \A o \in Callers : Counting(o)'
  BY <1>1, <1>2 DEF CallStep, Counting, Nobody
<1>7. \A o \in Callers : CountIsTrue(o)'
  BY <1>1, <1>2, <1>4 DEF CountIsTrue
<1>8. QuotaKept'
  BY <1>4 DEF QuotaKept
<1>9. QED BY <1>3, <1>5, <1>6, <1>7, <1>8

LEMMA CallSteps ==
    ASSUME MaxIds \in Nat, Limit \in Nat, IntakeInv, NEW c \in Callers,
           \/ Lookup(c) \/ Preflight(c) \/ Enter(c) \/ CountWorkers(c) \/ AnnounceQueued(c) \/ Wake(c)
           \/ FindAlias(c) \/ ReturnToRoute(c) \/ ReuseAlias(c) \/ Retry(c)
    PROVE  IntakeInv'
<1> USE DEF IntakeInv, IntakeTypes
<1> SUFFICES CallStep(c)
  BY CallStepKeeps
<1>0. call[c] \in CallRow /\ call \in [Callers -> CallRow] /\ NoId \in Nat
  BY DEF NoId
<1>1. ASSUME NEW pc \in {"idle", "preflight", "waiting", "counting", "counted", "announced", "matched", "done"},
             Go(c, pc), UNCHANGED <<req, delegs>>, DOMAIN space' = Ids, \A i \in Ids : "st" \in DOMAIN space'[i],
             \A i \in Ids : space'[i].st = "open" => space[i].st = "open",
             pc = "matched" => ~Delegation(c),
             pc = "announced" => At(c, "reserved"),
             pc = "counted" => Workspaces < Limit,
             pc \in {"counting", "counted"} => lock' = {c},
             lock' = lock \/ lock = Nobody \/ lock = {c}
      PROVE  CallStep(c)
  <2> DEFINE new == [call[c] EXCEPT !.pc = pc]
  <2>1. new \in CallRow /\ new.pc = pc /\ new.found = call[c].found /\ new.answer = call[c].answer
    BY <1>0 DEF CallRow
  <2>2. call' = [call EXCEPT ![c] = new]
    BY <1>0, <1>1 DEF Go
  <2> HIDE DEF new
  <2>3. QED BY <1>1, <2>1, <2>2 DEF CallStep, At
<1>2. ASSUME NEW i \in Nat, Answer(c, i), Delegation(c) => i = NoId \/ Known(c, i),
             UNCHANGED <<req, delegs, lock>>, DOMAIN space' = Ids, \A j \in Ids : "st" \in DOMAIN space'[j],
             \A j \in Ids : space'[j].st = "open" => space[j].st = "open"
      PROVE  CallStep(c)
  <2> DEFINE new == [call[c] EXCEPT !.pc = "done", !.answer = i]
  <2>1. new \in CallRow /\ new.pc = "done" /\ new.answer = i
    BY <1>0 DEF CallRow
  <2>2. call' = [call EXCEPT ![c] = new]
    BY <1>0, <1>2 DEF Answer
  <2> HIDE DEF new
  <2>3. QED BY <1>2, <2>1, <2>2 DEF CallStep
<1>3. CASE Lookup(c)
  <2>1. CASE \E d \in OfKey(c) : IF d.dig = req[c].dig THEN Answer(c, d.id) ELSE Refuse(c)
    <3>1. PICK d \in OfKey(c) : IF d.dig = req[c].dig THEN Answer(c, d.id) ELSE Refuse(c)
      BY <2>1
    <3>2. CASE d.dig = req[c].dig
      <4>1. Known(c, d.id) /\ Answer(c, d.id) /\ d.id \in Nat
        BY <3>1, <3>2 DEF OfKey, Known
      <4>2. QED BY <1>2, <1>3, <4>1 DEF Lookup
    <3>3. CASE Refuse(c)
      BY <1>1, <1>3, <3>3 DEF Lookup, Refuse
    <3>4. QED BY <3>1, <3>2, <3>3
  <2>2. CASE Go(c, "preflight")
    BY <1>1, <1>3, <2>2 DEF Lookup
  <2>3. QED BY <1>3, <2>1, <2>2 DEF Lookup
<1>4. CASE Preflight(c)
  BY <1>1, <1>4 DEF Preflight, Refuse
<1>5. CASE Enter(c)
  BY <1>1, <1>5 DEF Enter
<1>6. CASE CountWorkers(c)
  <2>1. lock = {c}
    BY <1>6 DEF CountWorkers, At, Counting
  <2>2. CASE Workspaces < Limit
    BY <1>1, <1>6, <2>1, <2>2 DEF CountWorkers
  <2>3. CASE ~(Workspaces < Limit)
    BY <1>1, <1>6, <2>1, <2>3 DEF CountWorkers, Refuse
  <2>4. QED BY <2>2, <2>3
<1>7. CASE AnnounceQueued(c)
  BY <1>1, <1>7 DEF AnnounceQueued
<1>8. CASE Wake(c)
  <2>1. call[c].found \in Nat
    BY <1>0 DEF CallRow
  <2>2. Delegation(c) => Known(c, call[c].found)
    BY <1>8 DEF Wake, At, AnswersKnown
  <2>3. QED BY <1>2, <1>8, <2>1, <2>2 DEF Wake
<1>9. CASE FindAlias(c)
  <2>1. CASE Go(c, "preflight")
    BY <1>1, <1>9, <2>1 DEF FindAlias
  <2>2. CASE ~Go(c, "preflight")
    <3>1. OfAlias # {} /\ call' = [call EXCEPT ![c].pc = "found", ![c].found = NewestAlias]
      BY <1>9, <2>2 DEF FindAlias
    <3>2. NewestAlias \in Nat
      BY <3>1, NewestIsOne
    <3> DEFINE new == [call[c] EXCEPT !.pc = "found", !.found = NewestAlias]
    <3>3. new \in CallRow /\ new.pc = "found"
      BY <1>0, <3>2 DEF CallRow
    <3>4. call' = [call EXCEPT ![c] = new]
      BY <1>0, <3>1
    <3> HIDE DEF new
    <3>5. ~Delegation(c)
      BY <1>9 DEF FindAlias
    <3>6. QED BY <1>9, <3>3, <3>4, <3>5 DEF FindAlias, CallStep
  <2>3. QED BY <2>1, <2>2
<1>10. CASE ReturnToRoute(c)
  <2>1. PICK i : i = call[c].found
    OBVIOUS
  <2>2. Go(c, "matched") \/ Go(c, "done")
    BY <1>10 DEF ReturnToRoute, Refuse
  <2>3. space' = space \/ space' = [space EXCEPT ![i].route = "primary"]
    BY <1>10, <2>1 DEF ReturnToRoute
  <2>4. DOMAIN space' = Ids /\ \A j \in Ids : "st" \in DOMAIN space'[j] /\ space'[j].st = space[j].st
    BY <2>3
  <2>6. ~Delegation(c)
    BY <1>10 DEF ReturnToRoute, At, AnswersKnown
  <2>5. QED BY <1>1, <1>10, <2>2, <2>4, <2>6 DEF ReturnToRoute
<1>11. CASE ReuseAlias(c)
  <2>1. PICK i \in Nat : i = call[c].found
    BY <1>0 DEF CallRow
  <2>2. space' = space \/ space' = [space EXCEPT ![i].route = "primary"]
    BY <1>11, <2>1 DEF ReuseAlias
  <2>3. DOMAIN space' = Ids /\ \A j \in Ids : "st" \in DOMAIN space'[j] /\ space'[j].st = space[j].st
    BY <2>2
  <2>4. CASE Go(c, "waiting") \/ Refuse(c)
    BY <1>1, <1>11, <2>3, <2>4 DEF ReuseAlias, Refuse
  <2>5. CASE Answer(c, i)
    <3>1. ~Delegation(c)
      BY <1>11 DEF ReuseAlias, At, AnswersKnown
    <3>2. QED BY <1>2, <1>11, <2>3, <2>5, <3>1 DEF ReuseAlias
  <2>6. QED BY <1>11, <2>1, <2>4, <2>5 DEF ReuseAlias
<1>12. CASE Retry(c)
  BY <1>1, <1>12 DEF Retry
<1>13. QED BY <1>3, <1>4, <1>5, <1>6, <1>7, <1>8, <1>9, <1>10, <1>11, <1>12

(* A caller inside the lock inserts its worker, and with it the delegation it found nobody had made. *)
LEMMA NewWorkKeeps ==
    ASSUME MaxIds \in Nat, Limit \in Nat, IntakeInv, NEW c \in Callers, At(c, "counted"), Leave, Room,
           NEW alias, space' = [space EXCEPT ![Fresh] = NewWorker(c, alias)], req' = req,
           \/ /\ ~Delegation(c) /\ delegs' = delegs /\ Answer(c, Fresh)
           \/ /\ Unbound(c) /\ delegs' = delegs \cup {NewDelegation(c, Fresh)}
              /\ call' = [call EXCEPT ![c].pc = "reserved", ![c].found = Fresh]
    PROVE  IntakeInv'
<1>t. /\ call \in [Callers -> CallRow] /\ DOMAIN space = Ids
      /\ \A j \in Ids : "st" \in DOMAIN space[j]
      /\ \A d \in delegs : d.id \in Nat
      /\ OneOfEach /\ QuotaKept
      /\ \A o \in Callers : AnswersKnown(o) /\ Counting(o) /\ CountIsTrue(o)
  BY DEF IntakeInv, IntakeTypes
<1>0. PICK i \in Ids : i = Fresh
  BY FreshFree
<1>1. i \in Nat /\ i # NoId
  BY DEF Ids, NoId
<1>2. /\ space' = [space EXCEPT ![i] = NewWorker(c, alias)]
      /\ \A d \in delegs' : d \in delegs \/ d = NewDelegation(c, i)
      /\ delegs \subseteq delegs'
  BY <1>0
<1>3. PICK new \in CallRow : /\ call' = [call EXCEPT ![c] = new]
                             /\ new.pc \in {"done", "reserved"}
                             /\ Delegation(c) => /\ NewDelegation(c, i) \in delegs'
                                                 /\ new.answer = call[c].answer
                                                 /\ new.found = i
  <2>0. call[c] \in CallRow
    BY <1>t
  <2>1. CASE ~Delegation(c) /\ Answer(c, Fresh)
    <3> DEFINE new == [call[c] EXCEPT !.pc = "done", !.answer = i]
    <3>1. new \in CallRow /\ new.pc = "done"
      BY <2>0, <1>1 DEF CallRow
    <3>2. call' = [call EXCEPT ![c] = new]
      BY <1>t, <2>1, <1>0 DEF Answer
    <3> HIDE DEF new
    <3>3. QED BY <2>1, <3>1, <3>2
  <2>2. CASE /\ delegs' = delegs \cup {NewDelegation(c, Fresh)}
             /\ call' = [call EXCEPT ![c].pc = "reserved", ![c].found = Fresh]
    <3> DEFINE new == [call[c] EXCEPT !.pc = "reserved", !.found = i]
    <3>1. new \in CallRow /\ new.pc = "reserved" /\ new.answer = call[c].answer /\ new.found = i
      BY <2>0, <1>1 DEF CallRow
    <3>2. call' = [call EXCEPT ![c] = new]
      BY <1>t, <2>2, <1>0
    <3>3. NewDelegation(c, i) \in delegs'
      BY <2>2, <1>0
    <3> HIDE DEF new
    <3>4. QED BY <3>1, <3>2, <3>3
  <2>3. QED BY <2>1, <2>2
<1>4. call'[c] = new /\ \A o \in Callers : o # c => call'[o] = call[o]
  BY <1>t, <1>3
<1>5. lock = {c} /\ Workspaces < Limit
  BY <1>t DEF At, Counting, CountIsTrue
<1>6. IntakeTypes'
  <2>1. \A j \in Ids : "st" \in DOMAIN space'[j]
    BY <1>t, <1>2 DEF NewWorker
  <2>2. NewDelegation(c, i).id \in Nat
    BY <1>1 DEF NewDelegation
  <2>3. \A d \in delegs' : d.id \in Nat
    BY <1>t, <1>2, <2>2
  <2>4. call' \in [Callers -> CallRow] /\ DOMAIN space' = Ids
    BY <1>t, <1>2, <1>3
  <2>5. QED BY <2>1, <2>3, <2>4 DEF IntakeTypes
<1>7. OneOfEach'
  <2>1. CASE delegs' = delegs
    BY <1>t, <2>1 DEF OneOfEach
  <2>2. CASE Unbound(c)
    <3>1. /\ NewDelegation(c, i).key = req[c].key
          /\ NewDelegation(c, i).origin = req[c].origin
      BY DEF NewDelegation
    <3>2. \A d \in delegs : d.key # req[c].key /\ d.origin # req[c].origin
      BY <2>2 DEF Unbound, OfKey, OriginFree
    <3>3. QED BY <1>t, <1>2, <3>1, <3>2 DEF OneOfEach
  <2>3. QED BY <2>1, <2>2
<1>8. ASSUME NEW o \in Callers PROVE AnswersKnown(o)'
  <2>1. \A a : Known(o, a) => Known(o, a)'
    BY <1>2 DEF Known
  <2>2. CASE o # c
    BY <1>t, <1>4, <2>1, <2>2 DEF AnswersKnown, Delegation
  <2>3. CASE o = c
    <3>1. ASSUME Delegation(c) PROVE Known(c, i)'
      <4>1. /\ NewDelegation(c, i).id = i /\ NewDelegation(c, i).key = req'[c].key
            /\ NewDelegation(c, i).dig = req'[c].dig
        BY DEF NewDelegation
      <4>2. QED BY <1>3, <3>1, <4>1 DEF Known
    <3>2. ASSUME Delegation(c) PROVE new.answer # NoId => Known(c, new.answer)'
      BY <1>t, <1>3, <2>1, <2>3, <3>2 DEF AnswersKnown
    <3>3. call'[o] = new /\ new.pc \notin {"found", "matched"}
      BY <1>3, <1>4, <2>3
    <3>4. Delegation(o)' => Delegation(c) /\ new.found = i
      BY <1>3, <2>3 DEF Delegation
    <3>5. QED BY <2>3, <3>1, <3>2, <3>3, <3>4 DEF AnswersKnown
  <2>4. QED BY <2>2, <2>3
<1>9. ASSUME NEW o \in Callers PROVE Counting(o)' /\ CountIsTrue(o)'
  <2>1. call'[o].pc \notin {"counting", "counted"}
    <3>1. CASE o = c
      BY <1>3, <1>4, <3>1
    <3>2. CASE o # c
      <4>1. call[o].pc \notin {"counting", "counted"}
        BY <1>t, <1>5, <3>2 DEF Counting
      <4>2. QED BY <1>4, <3>2, <4>1
    <3>3. QED BY <3>1, <3>2
  <2>2. QED BY <2>1 DEF Counting, CountIsTrue
<1>10. QuotaKept'
  <2>1. Workspaces' <= Workspaces + 1 /\ Workspaces \in Nat
    BY <1>t, <1>2, OneOpened, OpenFinite
  <2>2. Workspaces' \in Nat
    BY <1>6, OpenCounted
  <2>3. QED BY <1>5, <2>1, <2>2 DEF QuotaKept
<1>11. QED BY <1>6, <1>7, <1>8, <1>9, <1>10 DEF IntakeInv

LEMMA InsertSteps ==
    ASSUME MaxIds \in Nat, Limit \in Nat, IntakeInv, NEW c \in Callers, Reserve(c) \/ CreateAlias(c)
    PROVE  IntakeInv'
<1>1. CASE CreateAlias(c)
  BY <1>1, NewWorkKeeps DEF CreateAlias
<1>2. CASE Reserve(c)
  <2>1. CASE UNCHANGED <<space, first, delegs, leases>> /\ (Refuse(c) \/ AnswerAgain(c))
    <3>1. CallStep(c)
      <4>0. call[c] \in CallRow /\ call \in [Callers -> CallRow] /\ DOMAIN space = Ids
            /\ lock = {c} /\ \A i \in Ids : "st" \in DOMAIN space[i]
        BY <1>2 DEF IntakeInv, IntakeTypes, Reserve, At, Counting
      <4>1. CASE Refuse(c)
        <5> DEFINE new == [call[c] EXCEPT !.pc = "done"]
        <5>1. new \in CallRow /\ new.pc = "done" /\ new.answer = call[c].answer
          BY <4>0 DEF CallRow
        <5>2. call' = [call EXCEPT ![c] = new]
          BY <4>0, <4>1 DEF Refuse, Go
        <5> HIDE DEF new
        <5>3. QED BY <1>2, <2>1, <4>0, <5>1, <5>2 DEF CallStep, Reserve, Leave, Nobody
      <4>2. CASE \E d \in OfKey(c) : d.dig = req[c].dig /\ Answer(c, d.id)
        <5>1. PICK d \in delegs : d.key = req[c].key /\ d.dig = req[c].dig /\ Answer(c, d.id)
          BY <4>2 DEF OfKey
        <5>2. d.id \in Nat /\ Known(c, d.id)
          BY <5>1 DEF Known, IntakeInv, IntakeTypes
        <5> DEFINE new == [call[c] EXCEPT !.pc = "done", !.answer = d.id]
        <5>3. new \in CallRow /\ new.pc = "done" /\ new.answer = d.id
          BY <4>0, <5>2 DEF CallRow
        <5>4. call' = [call EXCEPT ![c] = new]
          BY <4>0, <5>1 DEF Answer
        <5> HIDE DEF new
        <5>5. QED BY <1>2, <2>1, <4>0, <5>2, <5>3, <5>4 DEF CallStep, Reserve, Leave, Nobody
      <4>3. QED BY <2>1, <4>1, <4>2 DEF AnswerAgain
    <3>2. QED BY <3>1, CallStepKeeps
  <2>2. CASE ~(UNCHANGED <<space, first, delegs, leases>> /\ (Refuse(c) \/ AnswerAgain(c)))
    <3>1. /\ At(c, "counted") /\ Room /\ Leave /\ req' = req
          /\ space' = [space EXCEPT ![Fresh] = NewWorker(c, FALSE)]
          /\ Unbound(c) /\ delegs' = delegs \cup {NewDelegation(c, Fresh)}
          /\ call' = [call EXCEPT ![c].pc = "reserved", ![c].found = Fresh]
      BY <1>2, <2>2 DEF Reserve
    <3>2. QED BY <3>1, NewWorkKeeps
  <2>3. QED BY <2>1, <2>2
<1>3. QED BY <1>1, <1>2

(* Everybody else leaves the calls and the delegations alone, and opens no workspace. *)
LEMMA ServiceSteps ==
    ASSUME MaxIds \in Nat, Limit \in Nat, IntakeInv,
           \/ \E i \in Ids : RunMoves(i) \/ AssignAlias(i) \/ CloseWorker(i)
           \/ Drain \/ ServiceDies \/ UNCHANGED intakeVars
    PROVE  IntakeInv'
<1> USE DEF IntakeInv, IntakeTypes
<1>1. /\ UNCHANGED <<req, delegs>> /\ DOMAIN space' = Ids
      /\ \A j \in Ids : /\ "st" \in DOMAIN space'[j]
                        /\ space'[j].st = "open" => space[j].st = "open"
  <2>1. CASE \E i \in Ids : AssignAlias(i) \/ CloseWorker(i)
    <3>1. PICK i \in Ids : AssignAlias(i) \/ CloseWorker(i)
      BY <2>1
    <3>2. \/ space' = space \/ space' = [space EXCEPT ![i].route = "fallback"]
          \/ space' = [space EXCEPT ![i].st = "closed"]
      BY <3>1 DEF AssignAlias, CloseWorker
    <3>3. UNCHANGED <<req, delegs>>
      BY <3>1 DEF AssignAlias, CloseWorker
    <3>4. QED BY <3>2, <3>3
  <2>2. CASE (\E i \in Ids : RunMoves(i)) \/ Drain \/ ServiceDies \/ UNCHANGED intakeVars
    BY <2>2 DEF RunMoves, Drain, ServiceDies, intakeVars
  <2>3. QED BY <2>1, <2>2
<1>2. /\ \/ UNCHANGED <<call, lock>>
         \/ \A c \in Callers : (call'[c] = call[c] /\ At(c, "done"))
                              \/ call'[c] = [call[c] EXCEPT !.pc = "idle"]
      /\ call' \in [Callers -> CallRow]
  <2>1. CASE ServiceDies
    <3>1. \A c \in Callers : [call[c] EXCEPT !.pc = "idle"] \in CallRow
      BY DEF CallRow
    <3>2. QED BY <2>1, <3>1 DEF ServiceDies
  <2>2. CASE UNCHANGED <<call, lock>>
    BY <2>2
  <2>3. QED BY <2>1, <2>2 DEF RunMoves, AssignAlias, CloseWorker, Drain, intakeVars
<1>3. \A c \in Callers : /\ call'[c].answer = call[c].answer /\ call'[c].found = call[c].found
                         /\ call'[c].pc = call[c].pc \/ call'[c].pc = "idle"
                         /\ call'[c].pc \in {"counting", "counted"} => UNCHANGED lock
  <2>1. \A c \in Callers : /\ [call[c] EXCEPT !.pc = "idle"].pc = "idle"
                           /\ [call[c] EXCEPT !.pc = "idle"].answer = call[c].answer
                           /\ [call[c] EXCEPT !.pc = "idle"].found = call[c].found
    BY DEF CallRow
  <2>2. QED BY <1>2, <2>1 DEF At
<1>4. Workspaces' <= Workspaces /\ Workspaces \in Nat /\ Workspaces' \in Nat
  <2>1. \A i \in Ids : space'[i].st = "open" => space[i].st = "open"
    BY <1>1
  <2>2. QED BY <2>1, NoneOpened, OpenFinite, OpenCounted
<1>5. IntakeTypes' /\ OneOfEach'
  <2>1. IntakeTypes'
    BY <1>1, <1>2
  <2>2. QED BY <1>1, <2>1 DEF OneOfEach
<1>6. \A c \in Callers : AnswersKnown(c)'
  BY <1>1, <1>3 DEF AnswersKnown, Known, Delegation
<1>7. \A c \in Callers : Counting(c)' /\ CountIsTrue(c)'
  BY <1>3, <1>4 DEF Counting, CountIsTrue
<1>8. QuotaKept'
  BY <1>4 DEF QuotaKept
<1>9. QED BY <1>5, <1>6, <1>7, <1>8

(* A key and an origin stand for one piece of work, every caller that is answered is answered
   with that one, and the quota of workspaces is kept: however calls with a key race, lose
   their answers or end with the process after the transaction, and however many callers count
   workspaces before they insert (reserve_delegation, _enforce_worker_limits). *)
THEOREM WorkIsTakenInOnce == IntakeSpec => []AdmittedOnce
<1>0. MaxIds \in Nat /\ Limit \in Nat
  BY IntakeAssumption
<1>1. IntakeInit => IntakeInv
  BY <1>0, IntakeStarts
<1>2. IntakeInv /\ [IntakeNext]_intakeVars => IntakeInv'
  <2> SUFFICES ASSUME IntakeInv, [IntakeNext]_intakeVars PROVE IntakeInv'
    OBVIOUS
  <2>1. CASE \E c \in Callers :
               \/ Lookup(c) \/ Preflight(c) \/ Enter(c) \/ CountWorkers(c) \/ AnnounceQueued(c)
               \/ Wake(c) \/ FindAlias(c) \/ ReturnToRoute(c) \/ ReuseAlias(c) \/ Retry(c)
    BY <1>0, <2>1, CallSteps
  <2>2. CASE \E c \in Callers : Reserve(c) \/ CreateAlias(c)
    BY <1>0, <2>2, InsertSteps
  <2>3. CASE \/ \E i \in Ids : RunMoves(i) \/ AssignAlias(i) \/ CloseWorker(i)
             \/ Drain \/ ServiceDies \/ UNCHANGED intakeVars
    BY <1>0, <2>3, ServiceSteps
  <2>4. QED BY <2>1, <2>2, <2>3 DEF IntakeNext
<1>3. IntakeInv => AdmittedOnce
  BY DEF AdmittedOnce, IntakeInv, OneWork, OneOfEach, AnswersKnown, Known
<1>4. QED BY <1>1, <1>2, <1>3, PTL DEF IntakeSpec

-----------------------------------------------------------------------------
(* Copies: what the argument needs to know of places and rows.               *)

CopyPcs == {"idle", "reserved", "project", "recorded", "created", "copying", "made", "cleaning", "failing",
            "fails", "recovering", "recovered", "stopping", "deleted", "done"}
SomeId == ProjectIds \cup {NoProject}
CopyTypes ==
    /\ kind \in {"duplicate", "template"} /\ prompt \in BOOLEAN /\ ids \in 0 .. MaxProjects
    /\ res \in [status : {"none", "pending", "completed", "failed"}, prj : SomeId, wrk : SomeId,
                stale : BOOLEAN]
    /\ copy \in [ProjectIds -> {"none", "created", "prepared", "failed"}]
    /\ files \in [ProjectIds -> 0 .. Files]
    /\ projects \subseteq ProjectIds /\ whole \subseteq ProjectIds /\ used \subseteq ProjectIds
    /\ copier \in [Copiers -> [pc : CopyPcs, prj : SomeId, wrk : SomeId]]

\* A caller that reserved the key makes, or rolls back, a project of its own.
Making == {"reserved", "project", "recorded", "created", "copying", "made", "cleaning", "failing"}
Active(c) == copier[c].pc \notin {"idle", "done"}
Made(p) == copy[p] # "none"

ProjectsOwned ==
    /\ whole \subseteq 1 .. ids
    /\ res.status = "pending" => res.prj \in 1 .. ids
    /\ res.status = "none" => res.prj = NoProject
    /\ \A c \in Copiers : Active(c) /\ copier[c].pc # "fails" => copier[c].prj \in 1 .. ids
    /\ \A c, d \in Copiers : c # d /\ copier[c].pc \in Making /\ copier[d].pc \in Making
                             => copier[c].prj # copier[d].prj

\* What the place of a caller says of its project.
PlaceTrue(pc, p, w) ==
    /\ pc \in {"created", "copying", "made", "cleaning"} => Made(p)
    /\ Duplicating /\ pc \in {"reserved", "project", "recorded", "created", "copying"} => p \notin whole
    /\ pc \in {"made", "recovered"} \/ (pc = "created" /\ ~Duplicating) => p \in whole
    /\ pc \in {"project", "copying", "cleaning", "fails", "recovering", "recovered"} => Duplicating
    /\ pc \in {"stopping", "deleted"} => ~Duplicating
    /\ pc = "stopping" /\ w # NoProject => Made(p)
PlacesTrue == \A c \in Copiers : PlaceTrue(copier[c].pc, copier[c].prj, copier[c].wrk)

\* A reported copy has its files and keeps its worker.
WholeTrue ==
    /\ \A p \in ProjectIds : Made(p) => p \in projects
    /\ Duplicating => used \subseteq whole /\ \A p \in whole : Made(p) /\ files[p] = Files
    /\ res.status = "completed" => res.wrk \in whole /\ Made(res.wrk)

\* While calls do not outlive their reservation, and in a template always, one call is active and
\* the reservation names the only project that can have a worker.
Single == prompt \/ ~Duplicating
Only(pc, p) ==
    /\ res.status = IF pc \in {"stopping", "deleted"} THEN "failed" ELSE "pending"
    /\ IF pc = "fails" THEN \A q \in ProjectIds : Made(q) => q = p ELSE p = res.prj
    /\ pc = "deleted" => \A q \in ProjectIds : ~Made(q)
OneActive ==
    Single =>
        /\ \A p \in ProjectIds : Made(p) => p = res.prj
        /\ \A c, d \in Copiers : Active(c) /\ Active(d) => c = d
        /\ \A c \in Copiers : Active(c) => Only(copier[c].pc, copier[c].prj)

CopyInv == CopyTypes /\ ProjectsOwned /\ PlacesTrue /\ WholeTrue /\ OneActive

-----------------------------------------------------------------------------
LEMMA IdsAreNumbers == MaxProjects \in Nat /\ ProjectIds \subseteq Nat /\ NoProject \notin ProjectIds
BY CopiersAssumption, FS_CardinalityType DEF MaxProjects, ProjectIds, NoProject

LEMMA CopyStart == ASSUME CopyInit PROVE CopyInv
<1>1. 0 \in 0 .. MaxProjects /\ 0 \in 0 .. Files
  BY IdsAreNumbers, CopiersAssumption
<1>2. CopyTypes
  BY <1>1 DEF CopyInit, CopyTypes, SomeId, CopyPcs
<1>3. ProjectsOwned /\ PlacesTrue /\ WholeTrue /\ OneActive
  BY DEF CopyInit, ProjectsOwned, PlacesTrue, PlaceTrue, WholeTrue, OneActive, Active, Making, Made
<1>4. QED BY <1>2, <1>3 DEF CopyInv

\* The state of a caller after its step
Caller(c, pc, p, w) ==
    /\ copier'[c].pc = pc /\ copier'[c].prj = p /\ copier'[c].wrk = w
    /\ \A d \in Copiers : d # c => copier'[d] = copier[d]
    /\ copier' \in [Copiers -> [pc : CopyPcs, prj : SomeId, wrk : SomeId]]

LEMMA CallerFields ==
    ASSUME CopyInv, NEW c \in Copiers
    PROVE  /\ copier[c] \in [pc : CopyPcs, prj : SomeId, wrk : SomeId]
           /\ copier[c].prj \in SomeId /\ copier[c].wrk \in SomeId
           /\ Active(c) /\ copier[c].pc # "fails" => copier[c].prj \in ProjectIds /\ copier[c].prj \in 1 .. ids
           /\ PlaceTrue(copier[c].pc, copier[c].prj, copier[c].wrk)
           /\ Single /\ Active(c) => Only(copier[c].pc, copier[c].prj)
<1>1. 1 .. ids \subseteq ProjectIds
  BY IdsAreNumbers DEF CopyInv, CopyTypes, ProjectIds
<1>2. copier[c] \in [pc : CopyPcs, prj : SomeId, wrk : SomeId]
  BY DEF CopyInv, CopyTypes
<1>3. QED BY <1>1, <1>2 DEF CopyInv, ProjectsOwned, PlacesTrue, OneActive

LEMMA CallerGoes ==
    ASSUME CopyInv, NEW c \in Copiers, NEW pc \in CopyPcs, CopyGoes(c, pc)
    PROVE  Caller(c, pc, copier[c].prj, copier[c].wrk)
<1>1. copier \in [Copiers -> [pc : CopyPcs, prj : SomeId, wrk : SomeId]]
  BY DEF CopyInv, CopyTypes
<1>2. QED BY <1>1 DEF CopyGoes, Caller

LEMMA CallerIs ==
    ASSUME CopyInv, NEW c \in Copiers, NEW pc \in CopyPcs, NEW p \in SomeId, NEW w \in SomeId,
           copier' = [copier EXCEPT ![c] = [pc |-> pc, prj |-> p, wrk |-> w]]
    PROVE  Caller(c, pc, p, w)
BY DEF CopyInv, CopyTypes, Caller

\* What the other callers know stays true if the step takes nothing from their projects.
LEMMA OthersKeep ==
    ASSUME CopyInv, NEW c \in Copiers, NEW pc \in CopyPcs, NEW p \in SomeId, NEW w \in SomeId,
           Caller(c, pc, p, w), kind' = kind, ids' \in Nat, ids' >= ids, whole' \subseteq 1 .. ids',
           res'.status = "pending" => res'.prj \in 1 .. ids',
           res'.status = "none" => res'.prj = NoProject,
           pc \notin {"idle", "done", "fails"} => p \in 1 .. ids',
           pc \in Making => \/ copier[c].pc \in Making /\ p = copier[c].prj
                            \/ p \notin 1 .. ids,
           PlaceTrue(pc, p, w)',
           \A d \in Copiers : d # c => PlaceTrue(copier[d].pc, copier[d].prj, copier[d].wrk)'
    PROVE  ProjectsOwned' /\ PlacesTrue'
<1>1. ids \in Nat
  BY IdsAreNumbers DEF CopyInv, CopyTypes
<1>2. \A d \in Copiers : d # c => copier'[d] = copier[d]
  BY DEF Caller
<1>3. ProjectsOwned'
  <2>1. \A d \in Copiers : Active(d)' /\ copier'[d].pc # "fails" => copier'[d].prj \in 1 .. ids'
    BY <1>1, <1>2 DEF CopyInv, ProjectsOwned, Active, Caller
  <2>2. \A d \in Copiers : d # c /\ pc \in Making /\ copier[d].pc \in Making => p # copier[d].prj
    BY DEF CopyInv, ProjectsOwned, Active, Making
  <2>3. \A d, e \in Copiers : d # e /\ copier'[d].pc \in Making /\ copier'[e].pc \in Making
                              => copier'[d].prj # copier'[e].prj
    BY <1>2, <2>2 DEF CopyInv, ProjectsOwned, Caller
  <2>4. QED BY <2>1, <2>3 DEF ProjectsOwned
<1>4. PlacesTrue'
  BY <1>2 DEF PlacesTrue, Caller, PlaceTrue, Made, Duplicating
<1>5. QED BY <1>3, <1>4

\* What a step of a caller owes, given where it leaves the caller and the shared rows
Owes(c, pc, p, w) ==
    /\ Caller(c, pc, p, w) /\ UNCHANGED <<kind, prompt>>
    /\ ids' \in 0 .. MaxProjects /\ ids' >= ids
    /\ pc \notin {"idle", "done", "fails"} => p \in 1 .. ids'
    /\ pc \in Making => \/ copier[c].pc \in Making /\ p = copier[c].prj
                        \/ p \notin 1 .. ids
    /\ PlaceTrue(pc, p, w)'
    /\ Single => /\ \A q \in ProjectIds : Made(q)' => q = res'.prj
                 /\ pc \notin {"idle", "done"} => Only(pc, p)'
    /\ \/ Active(c)
       \/ Single => \A d \in Copiers : ~Active(d)
       \/ pc \in {"idle", "done"} /\ UNCHANGED <<res, copy>>

RowsTrue ==
    /\ res \in [status : {"none", "pending", "completed", "failed"}, prj : SomeId, wrk : SomeId,
                stale : BOOLEAN]
    /\ copy \in [ProjectIds -> {"none", "created", "prepared", "failed"}]
    /\ files \in [ProjectIds -> 0 .. Files]
    /\ projects \subseteq ProjectIds /\ used \subseteq ProjectIds /\ whole \subseteq 1 .. ids
    /\ res.status = "pending" => res.prj \in 1 .. ids
    /\ res.status = "none" => res.prj = NoProject

LEMMA RowsAre ==
    ASSUME CopyInv
    PROVE  /\ RowsTrue /\ WholeTrue /\ ids \in 0 .. MaxProjects /\ ids \in Nat
           /\ kind \in {"duplicate", "template"}
           /\ Single => \A p \in ProjectIds : Made(p) => p = res.prj
BY IdsAreNumbers DEF CopyInv, CopyTypes, ProjectsOwned, RowsTrue, OneActive

LEMMA CopyStep ==
    ASSUME CopyInv, NEW c \in Copiers, NEW pc \in CopyPcs, NEW p \in SomeId, NEW w \in SomeId,
           Owes(c, pc, p, w), RowsTrue', WholeTrue',
           \A d \in Copiers : d # c => PlaceTrue(copier[d].pc, copier[d].prj, copier[d].wrk)'
    PROVE  CopyInv'
<1>1. ids \in Nat /\ ids' \in Nat /\ Caller(c, pc, p, w) /\ \A d \in Copiers : d # c => copier'[d] = copier[d]
  BY RowsAre, IdsAreNumbers DEF Owes, Caller
<1>2. CopyTypes'
  <2>1. 1 .. ids' \subseteq ProjectIds
    BY IdsAreNumbers DEF Owes, ProjectIds
  <2>2. QED BY <1>1, <2>1 DEF Owes, RowsTrue, CopyTypes, CopyInv, Caller
<1>3. ProjectsOwned' /\ PlacesTrue'
  BY <1>1, OthersKeep DEF Owes, RowsTrue
<1>4. OneActive'
  <2>1. SUFFICES ASSUME Single
                 PROVE  /\ \A d, e \in Copiers : Active(d)' /\ Active(e)' => d = e
                        /\ \A d \in Copiers : Active(d)' => Only(copier[d].pc, copier[d].prj)'
    <3>1. Single' => Single
      BY DEF Owes, Single, Duplicating
    <3>2. Single => \A q \in ProjectIds : Made(q)' => q = res'.prj
      BY DEF Owes
    <3>3. QED BY <2>1, <3>1, <3>2 DEF OneActive
  <2>2. \A d, e \in Copiers : Active(d) /\ Active(e) => d = e
    BY <2>1 DEF CopyInv, OneActive
  <2>3. \A d \in Copiers : d # c => (Active(d)' <=> Active(d))
    BY <1>1 DEF Active
  <2>4. Active(c)' => Only(copier[c].pc, copier[c].prj)'
    BY <1>1, <2>1 DEF Owes, Active, Caller
  <2>5. CASE \A d \in Copiers : d # c => ~Active(d)
    BY <2>3, <2>4, <2>5
  <2>6. CASE pc \in {"idle", "done"} /\ UNCHANGED <<res, copy>>
    <3>1. ~Active(c)'
      BY <1>1, <2>6 DEF Active, Caller
    <3>2. \A d \in Copiers : d # c /\ Active(d) => Only(copier[d].pc, copier[d].prj)'
      BY <1>1, <2>1, <2>6 DEF CopyInv, OneActive, Only, Made
    <3>3. QED BY <2>2, <2>3, <3>1, <3>2
  <2>7. QED BY <2>1, <2>2, <2>5, <2>6 DEF Owes
<1>5. QED BY <1>2, <1>3, <1>4 DEF CopyInv

\* A step that leaves the rows alone
RowsStay == UNCHANGED <<kind, prompt, ids, copy, files, whole, used>>

LEMMA OthersUndisturbed ==
    ASSUME CopyInv, UNCHANGED <<kind, copy, whole>>, NEW c \in Copiers, NEW pc, NEW p, NEW w, Caller(c, pc, p, w)
    PROVE  \A d \in Copiers : d # c => PlaceTrue(copier[d].pc, copier[d].prj, copier[d].wrk)'
BY DEF CopyInv, PlacesTrue, PlaceTrue, Made, Duplicating, Caller

LEMMA CallerSteps ==
    ASSUME CopyInv, NEW c \in Copiers, Answered(c) \/ FindsStale(c) \/ RecoveryCompletes(c)
    PROVE  CopyInv'
<1>1. /\ RowsStay /\ UNCHANGED <<res, projects>> /\ RowsTrue' /\ WholeTrue'
  BY RowsAre DEF Answered, FindsStale, RecoveryCompletes, RowsStay, RowsTrue, WholeTrue, Made, Duplicating
<1>2. UNCHANGED <<kind, copy, whole>>
  BY <1>1 DEF RowsStay
<1> USE CallerFields, RowsAre, IdsAreNumbers
<1>3. CASE Answered(c)
  <2>1. Caller(c, "done", copier[c].prj, copier[c].wrk)
    BY <1>3, CallerGoes DEF Answered, CopyPcs
  <2>2. Owes(c, "done", copier[c].prj, copier[c].wrk)
    BY <1>1, <2>1 DEF Owes, RowsStay, PlaceTrue, Made, Making
  <2>3. QED BY <1>1, <1>2, <2>1, <2>2, CopyStep, OthersUndisturbed DEF CopyPcs
<1>4. CASE FindsStale(c)
  <2>1. res.prj \in 1 .. ids /\ res.prj \in SomeId
    BY <1>4 DEF FindsStale, RowsTrue
  <2>2. Caller(c, "recovering", res.prj, NoProject)
    BY <1>4, <2>1, CallerIs DEF FindsStale, CopyPcs, SomeId
  <2>3. Single => \A d \in Copiers : ~Active(d)
    BY <1>4 DEF FindsStale, Single, Calm, Active
  <2>4. Owes(c, "recovering", res.prj, NoProject)
    BY <1>1, <1>4, <2>1, <2>2, <2>3 DEF Owes, RowsStay, PlaceTrue, Made, Making, FindsStale, Only, Duplicating
  <2>5. QED BY <1>1, <1>2, <2>1, <2>2, <2>4, CopyStep, OthersUndisturbed DEF CopyPcs, SomeId
<1>5. CASE RecoveryCompletes(c)
  <2>1. Caller(c, "recovered", copier[c].prj, copier[c].wrk)
    BY <1>5, CallerGoes DEF RecoveryCompletes, CopyPcs
  <2>2. copier[c].pc = "recovering" /\ Active(c) /\ copier[c].prj \in whole
    BY <1>5 DEF RecoveryCompletes, CopyAt, Active, Proven
  <2>p. PlaceTrue("recovered", copier[c].prj, copier[c].wrk)' 
    BY <1>1, <2>1, <2>2 DEF RowsStay, PlaceTrue, Duplicating, Caller
  <2>o. Single => Only("recovered", copier[c].prj)'
    BY <1>1, <2>1, <2>2 DEF Only, Made, RowsStay, Caller
  <2>3. Owes(c, "recovered", copier[c].prj, copier[c].wrk)
    BY <1>1, <2>1, <2>2, <2>p, <2>o DEF Owes, RowsStay, Made, Making
  <2>4. QED BY <1>1, <1>2, <2>1, <2>3, CopyStep, OthersUndisturbed DEF CopyPcs
<1>6. QED BY <1>3, <1>4, <1>5

LEMMA ReserveKept == ASSUME CopyInv, NEW c \in Copiers, ReserveKey(c) PROVE CopyInv'
<1> USE CallerFields, RowsAre, IdsAreNumbers
<1>1. PICK i \in Nat : i = ids + 1
  OBVIOUS
<1>2. /\ i \in 1 .. MaxProjects /\ i \in ProjectIds /\ i \notin 1 .. ids /\ i \in SomeId
      /\ 1 .. ids \subseteq 1 .. i /\ i \in 1 .. i /\ i >= ids /\ i \in 0 .. MaxProjects
  BY <1>1 DEF ReserveKey, ProjectIds, SomeId
<1>3. /\ ids' = i /\ res' = [status |-> "pending", prj |-> i, wrk |-> NoProject, stale |-> FALSE]
      /\ copier' = [copier EXCEPT ![c] = [pc |-> "reserved", prj |-> i, wrk |-> NoProject]]
      /\ UNCHANGED <<kind, prompt, projects, copy, files, whole, used>>
      /\ ~Active(c) /\ res.prj = NoProject /\ res.status # "pending"
  BY <1>1 DEF ReserveKey, CopyAt, Repeatable, FreedKey, Active, RowsTrue
<1>4. Caller(c, "reserved", i, NoProject)
  BY <1>2, <1>3, CallerIs DEF CopyPcs, SomeId
<1>5. RowsTrue' /\ WholeTrue'
  BY <1>2, <1>3 DEF RowsTrue, WholeTrue, Made, SomeId, Duplicating
<1>6. Single => (\A d \in Copiers : ~Active(d)) /\ \A q \in ProjectIds : ~Made(q)
  <2>1. Single => \A q \in ProjectIds : ~Made(q)
    BY <1>3
  <2>2. ASSUME Single, NEW d \in Copiers, Active(d) PROVE FALSE
    <3>1. Only(copier[d].pc, copier[d].prj) /\ (copier[d].pc # "fails" => copier[d].prj \in ProjectIds)
      BY <2>2
    <3>2. copier[d].pc \in {"stopping", "deleted"} /\ copier[d].prj = NoProject
      BY <1>3, <3>1 DEF Only
    <3>3. QED BY <3>1, <3>2
  <2>3. QED BY <2>1, <2>2
<1>7. PlaceTrue("reserved", i, NoProject)'
  BY <1>2, <1>3 DEF PlaceTrue, RowsTrue
<1>8. Only("reserved", i)' /\ (Single => \A q \in ProjectIds : ~Made(q)')
  BY <1>3, <1>6 DEF Only, Made
<1>9. Owes(c, "reserved", i, NoProject)
  BY <1>2, <1>3, <1>4, <1>6, <1>7, <1>8 DEF Owes
<1>10. QED BY <1>2, <1>3, <1>4, <1>5, <1>9, CopyStep, OthersUndisturbed DEF CopyPcs, SomeId

\* A step of an active caller that moves on with its project, or ends.
LEMMA ActiveStep ==
    ASSUME CopyInv, NEW c \in Copiers, NEW pc \in CopyPcs, NEW p \in SomeId, NEW w \in SomeId, Active(c),
           p = copier[c].prj, copier[c].pc # "fails", Caller(c, pc, p, w), UNCHANGED <<kind, prompt, ids>>,
           RowsTrue', WholeTrue', pc \in Making => copier[c].pc \in Making,
           pc \notin {"idle", "done"} => PlaceTrue(pc, p, w)',
           Single => /\ \A q \in ProjectIds : Made(q)' => q = res'.prj
                     /\ pc \notin {"idle", "done"} => Only(pc, p)',
           \A d \in Copiers : d # c => PlaceTrue(copier[d].pc, copier[d].prj, copier[d].wrk)'
    PROVE  CopyInv'
<1> USE CallerFields, RowsAre, IdsAreNumbers
<1>1. pc \in {"idle", "done"} => PlaceTrue(pc, p, w)'
  BY DEF PlaceTrue
<1>2. p \in 1 .. ids
  OBVIOUS
<1>3. Owes(c, pc, p, w)
  BY <1>1, <1>2 DEF Owes
<1>4. QED BY <1>3, CopyStep

\* A step with which an active caller ends.
LEMMA ActiveEnds ==
    ASSUME CopyInv, NEW c \in Copiers, NEW p \in SomeId, NEW w \in SomeId, Active(c),
           p = copier[c].prj, copier[c].pc # "fails", Caller(c, "done", p, w),
           UNCHANGED <<kind, prompt, ids, copy, whole>>, RowsTrue', WholeTrue',
           Single => \A q \in ProjectIds : Made(q)' => q = res'.prj
    PROVE  CopyInv'
<1>1. "done" \in CopyPcs /\ "done" \notin Making
  BY DEF CopyPcs, Making
<1>2. \A d \in Copiers : d # c => PlaceTrue(copier[d].pc, copier[d].prj, copier[d].wrk)'
  BY OthersUndisturbed
<1>3. QED BY <1>1, <1>2, ActiveStep

LEMMA ActiveFields ==
    ASSUME CopyInv, NEW c \in Copiers, Active(c), copier[c].pc # "fails"
    PROVE  /\ copier[c].prj \in ProjectIds /\ copier[c].prj \in 1 .. ids /\ copier[c].wrk \in SomeId
           /\ PlaceTrue(copier[c].pc, copier[c].prj, copier[c].wrk)
           /\ Single => /\ Only(copier[c].pc, copier[c].prj)
                        /\ \A q \in ProjectIds : Made(q) => q = res.prj
                        /\ \A d \in Copiers : d # c => ~Active(d)
           /\ \A d \in Copiers : d # c /\ copier[c].pc \in Making /\ copier[d].pc \in Making
                                 => copier[d].prj # copier[c].prj
BY CallerFields DEF CopyInv, OneActive, ProjectsOwned

\* The steps that write the reservation
LEMMA ReservationSteps ==
    ASSUME CopyInv, NEW c \in Copiers,
           RecordProject(c) \/ Complete(c) \/ RecoveryAnswers(c) \/ RollbackFails(c) \/ RollbackFrees(c)
    PROVE  CopyInv'
<1>0. PICK p, w : p = copier[c].prj /\ w = copier[c].wrk
  OBVIOUS
<1>1. /\ Active(c) /\ copier[c].pc # "fails" /\ UNCHANGED <<kind, prompt, ids, projects, copy, files, whole, used>>
  BY DEF RecordProject, Complete, RecoveryAnswers, RollbackFails, RollbackFrees, CopyAt, Active
<1>2. /\ RowsTrue /\ WholeTrue /\ p \in ProjectIds /\ p \in 1 .. ids /\ w \in SomeId /\ p \in SomeId
      /\ PlaceTrue(copier[c].pc, p, w) /\ NoProject \in SomeId
      /\ Single => Only(copier[c].pc, p) /\ \A q \in ProjectIds : Made(q) => q = res.prj
  BY <1>0, <1>1, ActiveFields, RowsAre DEF SomeId
<1>3. CASE RecordProject(c)
  <2>1. CASE res.status # "pending"
    <3>1. CopyGoes(c, "failing") /\ UNCHANGED res /\ copier[c].pc = "project"
      BY <1>3, <2>1 DEF RecordProject, CopyAt
    <3>2. Caller(c, "failing", p, w)
      BY <3>1, <1>0, CallerGoes DEF CopyPcs
    <3>3. RowsTrue' /\ WholeTrue' /\ PlaceTrue("failing", p, w)' /\ ~Single
      BY <1>1, <1>2, <2>1, <3>1 DEF RowsTrue, WholeTrue, Made, Duplicating, PlaceTrue, Only
    <3>4. \A d \in Copiers : d # c => PlaceTrue(copier[d].pc, copier[d].prj, copier[d].wrk)'
      BY <1>1, <3>2, OthersUndisturbed
    <3>5. QED BY <1>0, <1>1, <1>2, <3>1, <3>2, <3>3, <3>4, ActiveStep DEF CopyPcs, Making
  <2>2. CASE res.status = "pending"
    <3>1. /\ res' = [res EXCEPT !.prj = p, !.stale = FALSE] /\ CopyGoes(c, "recorded") /\ copier[c].pc = "project"
      BY <1>0, <1>3, <2>2 DEF RecordProject, CopyAt
    <3>2. Caller(c, "recorded", p, w)
      BY <3>1, <1>0, CallerGoes DEF CopyPcs
    <3>3. /\ res' \in [status : {"none", "pending", "completed", "failed"}, prj : SomeId, wrk : SomeId,
                       stale : BOOLEAN]
          /\ res'.prj = p /\ res'.status = "pending"
      BY <1>2, <2>2, <3>1 DEF RowsTrue
    <3>4. RowsTrue' /\ WholeTrue' /\ PlaceTrue("recorded", p, w)'
      BY <1>1, <1>2, <3>1, <3>3 DEF RowsTrue, WholeTrue, Made, Duplicating, PlaceTrue
    <3>5. Single => (\A q \in ProjectIds : Made(q)' => q = res'.prj) /\ Only("recorded", p)'
      BY <1>1, <1>2, <3>1, <3>3 DEF Only, Made
    <3>6. \A d \in Copiers : d # c => PlaceTrue(copier[d].pc, copier[d].prj, copier[d].wrk)'
      BY <1>1, <3>2, OthersUndisturbed
    <3>7. QED BY <1>0, <1>1, <1>2, <3>1, <3>2, <3>4, <3>5, <3>6, ActiveStep DEF CopyPcs, Making
  <2>3. QED BY <2>1, <2>2
<1>4. CASE Complete(c) \/ RecoveryAnswers(c)
  <2>1. p \in whole /\ Made(p) /\ copier[c].pc \in {"made", "recovered"}
    BY <1>2, <1>4 DEF Complete, RecoveryAnswers, CopyAt, PlaceTrue, WholeTrue
  <2>2. CASE res.status # "pending"
    <3>1. PICK pc \in {"failing", "done"} : CopyGoes(c, pc) /\ (pc = "failing" => copier[c].pc = "made")
      BY <1>4, <2>2 DEF Complete, RecoveryAnswers, CopyAt
    <3>2. Caller(c, pc, p, w) /\ UNCHANGED res
      BY <1>4, <2>2, <1>0, <3>1, CallerGoes DEF Complete, RecoveryAnswers, CopyPcs
    <3>3. RowsTrue' /\ WholeTrue' /\ PlaceTrue(pc, p, w)' /\ ~Single
      BY <1>1, <1>2, <2>1, <2>2, <3>1, <3>2 DEF RowsTrue, WholeTrue, Made, Duplicating, PlaceTrue, Only
    <3>4. \A d \in Copiers : d # c => PlaceTrue(copier[d].pc, copier[d].prj, copier[d].wrk)'
      BY <1>1, <3>2, OthersUndisturbed
    <3>5. QED BY <1>0, <1>1, <1>2, <3>1, <3>2, <3>3, <3>4, ActiveStep DEF CopyPcs, Making
  <2>3. CASE res.status = "pending"
    <3>1. res' = [res EXCEPT !.status = "completed", !.prj = p, !.wrk = p] /\ CopyGoes(c, "done")
      BY <1>0, <1>4, <2>3 DEF Complete, RecoveryAnswers, Completed
    <3>2. Caller(c, "done", p, w)
      BY <3>1, <1>0, CallerGoes DEF CopyPcs
    <3>3. /\ res' \in [status : {"none", "pending", "completed", "failed"}, prj : SomeId, wrk : SomeId,
                       stale : BOOLEAN]
          /\ res'.prj = p /\ res'.wrk = p /\ res'.status = "completed"
      BY <1>2, <3>1 DEF RowsTrue
    <3>4. RowsTrue' /\ WholeTrue'
      BY <1>1, <1>2, <2>1, <3>1, <3>3 DEF RowsTrue, WholeTrue, Made, Duplicating
    <3>5. Single => \A q \in ProjectIds : Made(q)' => q = res'.prj
      BY <1>1, <1>2, <2>1, <3>3 DEF Only, Made
    <3>6. QED BY <1>0, <1>1, <1>2, <3>1, <3>2, <3>4, <3>5, ActiveEnds
  <2>4. QED BY <2>2, <2>3
<1>5. CASE RollbackFails(c)
  <2>1. CASE res.status # "pending"
    <3>1. CopyGoes(c, "done") /\ UNCHANGED res
      BY <1>5, <2>1 DEF RollbackFails
    <3>2. Caller(c, "done", p, w)
      BY <3>1, <1>0, CallerGoes DEF CopyPcs
    <3>3. RowsTrue' /\ WholeTrue' /\ (Single => \A q \in ProjectIds : Made(q)' => q = res'.prj)
      BY <1>1, <1>2, <3>1 DEF RowsTrue, WholeTrue, Made, Duplicating
    <3>4. QED BY <1>0, <1>1, <1>2, <3>2, <3>3, ActiveEnds
  <2>2. CASE res.status = "pending"
    <3>1. PICK v : v = IF Made(p) THEN p ELSE NoProject
      OBVIOUS
    <3>2. /\ res' = [res EXCEPT !.status = "failed", !.prj = p, !.wrk = v]
          /\ copier' = [copier EXCEPT ![c].pc = "stopping", ![c].wrk = v]
          /\ copier[c].pc = "failing" /\ ~Duplicating
      BY <1>0, <1>5, <2>2, <3>1 DEF RollbackFails, CopyAt, Made
    <3>3. v \in SomeId /\ (v # NoProject => Made(p))
      BY <1>2, <3>1
    <3>4. copier \in [Copiers -> [pc : CopyPcs, prj : SomeId, wrk : SomeId]]
      BY DEF CopyInv, CopyTypes
    <3>5. Caller(c, "stopping", p, v)
      BY <1>0, <3>2, <3>3, <3>4 DEF Caller, CopyPcs
    <3>6. /\ res' \in [status : {"none", "pending", "completed", "failed"}, prj : SomeId, wrk : SomeId,
                       stale : BOOLEAN]
          /\ res'.prj = p /\ res'.status = "failed"
      BY <1>2, <3>2, <3>3 DEF RowsTrue
    <3>7. RowsTrue' /\ WholeTrue' /\ PlaceTrue("stopping", p, v)'
      BY <1>1, <1>2, <3>2, <3>3, <3>6 DEF RowsTrue, WholeTrue, Made, Duplicating, PlaceTrue
    <3>8. Single => (\A q \in ProjectIds : Made(q)' => q = res'.prj) /\ Only("stopping", p)'
      BY <1>1, <1>2, <3>2, <3>6 DEF Only, Made
    <3>9. \A d \in Copiers : d # c => PlaceTrue(copier[d].pc, copier[d].prj, copier[d].wrk)'
      BY <1>1, <3>5, OthersUndisturbed
    <3>10. QED BY <1>0, <1>1, <1>2, <3>3, <3>5, <3>7, <3>8, <3>9, ActiveStep DEF CopyPcs, Making
  <2>3. QED BY <2>1, <2>2
<1>6. CASE RollbackFrees(c)
  <2>1. CopyGoes(c, "done") /\ copier[c].pc = "deleted" /\ ~Duplicating
    BY <1>2, <1>6 DEF RollbackFrees, CopyAt, PlaceTrue
  <2>2. Caller(c, "done", p, w)
    BY <2>1, <1>0, CallerGoes DEF CopyPcs
  <2>3. res' = res \/ (res.status = "failed" /\ res' = [res EXCEPT !.prj = NoProject, !.wrk = NoProject])
    BY <1>6 DEF RollbackFrees
  <2>4. /\ res' \in [status : {"none", "pending", "completed", "failed"}, prj : SomeId, wrk : SomeId,
                     stale : BOOLEAN]
        /\ res' = res \/ res'.status = "failed"
    BY <1>2, <2>3 DEF RowsTrue
  <2>5. RowsTrue' /\ WholeTrue'
    BY <1>1, <1>2, <2>1, <2>4 DEF RowsTrue, WholeTrue, Made, Duplicating
  <2>6. Single => \A q \in ProjectIds : ~Made(q)'
    BY <1>1, <1>2, <2>1 DEF Only, Made
  <2>7. QED BY <1>0, <1>1, <1>2, <2>2, <2>5, <2>6, ActiveEnds
<1>7. QED BY <1>3, <1>4, <1>5, <1>6

\* The steps that make the workspace or fail, and leave the reservation
LEMMA MakingSteps ==
    ASSUME CopyInv, NEW c \in Copiers,
           CreateProject(c) \/ CreateWorker(c) \/ PrepareWorkspace(c) \/ CopyFile(c) \/ Report(c) \/ Trip(c)
    PROVE  CopyInv'
<1>0. PICK p, w : p = copier[c].prj /\ w = copier[c].wrk
  OBVIOUS
<1>1. /\ Active(c) /\ copier[c].pc \in Making /\ copier[c].pc # "fails" /\ UNCHANGED <<kind, prompt, res, ids, used>>
  BY DEF CreateProject, CreateWorker, PrepareWorkspace, CopyFile, Report, Trip, CopyAt, Active, Making
<1>2. /\ RowsTrue /\ WholeTrue /\ p \in ProjectIds /\ p \in 1 .. ids /\ w \in SomeId /\ p \in SomeId
      /\ PlaceTrue(copier[c].pc, p, w)
      /\ Single => /\ Only(copier[c].pc, p) /\ p = res.prj /\ \A q \in ProjectIds : Made(q) => q = res.prj
                   /\ \A d \in Copiers : d # c => ~Active(d)
      /\ \A d \in Copiers : d # c /\ copier[d].pc \in Making => copier[d].prj # p
  BY <1>0, <1>1, ActiveFields, RowsAre DEF SomeId, Only, Making
<1>3. ASSUME NEW pc \in CopyPcs, CopyGoes(c, pc), pc \in Making, RowsTrue', WholeTrue', PlaceTrue(pc, p, w)',
             \A q \in ProjectIds : Made(q)' => Made(q) \/ q = p,
             \A d \in Copiers : d # c => PlaceTrue(copier[d].pc, copier[d].prj, copier[d].wrk)'
      PROVE  CopyInv'
  <2>1. Caller(c, pc, p, w)
    BY <1>0, <1>3, CallerGoes
  <2>2. Single => (\A q \in ProjectIds : Made(q)' => q = res'.prj) /\ Only(pc, p)'
    BY <1>1, <1>2, <1>3 DEF Only, Making
  <2>3. QED BY <1>0, <1>1, <1>2, <1>3, <2>1, <2>2, ActiveStep
<1>4. ASSUME NEW pc \in CopyPcs, CopyGoes(c, pc) PROVE Caller(c, pc, p, w)
  BY <1>0, <1>4, CallerGoes
<1>5. ASSUME NEW pc \in CopyPcs, CopyGoes(c, pc), UNCHANGED <<copy, whole>>
      PROVE  \A d \in Copiers : d # c => PlaceTrue(copier[d].pc, copier[d].prj, copier[d].wrk)'
  BY <1>1, <1>4, <1>5, OthersUndisturbed
<1>6. CASE CreateProject(c)
  <2>1. PICK pc \in {"project", "recorded"} : CopyGoes(c, pc) /\ (pc = "project" => Duplicating)
    BY <1>6 DEF CreateProject
  <2>2. /\ projects' = projects \cup {p} /\ UNCHANGED <<copy, files, whole>> /\ copier[c].pc = "reserved"
    BY <1>0, <1>6 DEF CreateProject, CopyAt
  <2>3. RowsTrue' /\ WholeTrue' /\ PlaceTrue(pc, p, w)'
    BY <1>1, <1>2, <2>1, <2>2 DEF RowsTrue, WholeTrue, Made, Duplicating, PlaceTrue
  <2>4. QED BY <1>3, <1>5, <2>1, <2>2, <2>3 DEF CopyPcs, Making, Made
<1>7. CASE CreateWorker(c) /\ p \notin projects
  <2>1. CopyGoes(c, "failing") /\ UNCHANGED <<projects, copy, files, whole>>
    BY <1>0, <1>7 DEF CreateWorker
  <2>2. RowsTrue' /\ WholeTrue' /\ PlaceTrue("failing", p, w)'
    BY <1>1, <1>2, <2>1 DEF RowsTrue, WholeTrue, Made, Duplicating, PlaceTrue
  <2>3. QED BY <1>3, <1>5, <2>1, <2>2 DEF CopyPcs, Making, Made
<1>8. CASE CreateWorker(c) /\ p \in projects
  <2>1. /\ copy' = [copy EXCEPT ![p] = "created"] /\ CopyGoes(c, "created") /\ UNCHANGED <<projects, files>>
        /\ whole' = IF Duplicating THEN whole ELSE whole \cup {p}
        /\ copier[c].pc = "recorded"
    BY <1>0, <1>8 DEF CreateWorker, CopyAt
  <2>2. \A q \in ProjectIds : Made(q)' <=> Made(q) \/ q = p
    BY <1>2, <2>1 DEF RowsTrue, Made
  <2>3. RowsTrue'
    BY <1>1, <1>2, <2>1 DEF RowsTrue
  <2>4. res.wrk \in whole => res.wrk \in ProjectIds
    BY <1>2, RowsAre DEF CopyInv, CopyTypes
  <2>5. WholeTrue' /\ PlaceTrue("created", p, w)'
    <3>1. whole \subseteq ProjectIds
      BY DEF CopyInv, CopyTypes
    <3>2. QED BY <1>1, <1>2, <1>8, <2>1, <2>2, <2>4, <3>1 DEF WholeTrue, Duplicating, PlaceTrue
  <2>6. \A d \in Copiers : d # c => PlaceTrue(copier[d].pc, copier[d].prj, copier[d].wrk)'
    <3>1. TAKE d \in Copiers
    <3>2. HAVE d # c
    <3>3. copier'[d] = copier[d]
      BY <1>4, <2>1, <3>2 DEF Caller, CopyPcs
    <3>4. PICK pc, q, v : pc = copier[d].pc /\ q = copier[d].prj /\ v = copier[d].wrk
      OBVIOUS
    <3>5. PlaceTrue(pc, q, v) /\ (pc \notin {"idle", "done"} /\ pc # "fails" => q \in ProjectIds)
      BY <3>4, CallerFields DEF Active
    <3>6. PlaceTrue(pc, q, v)'
      <4>1. CASE Duplicating
        BY <1>1, <2>1, <2>2, <3>5, <4>1 DEF PlaceTrue, Duplicating
      <4>2. CASE ~Duplicating
        BY <1>1, <1>2, <3>2, <3>4, <4>2 DEF PlaceTrue, Duplicating, Single, Active
      <4>3. QED BY <4>1, <4>2
    <3>7. QED BY <3>3, <3>4, <3>6
  <2>7. QED BY <1>3, <2>1, <2>2, <2>3, <2>5, <2>6 DEF CopyPcs, Making
<1>9. CASE PrepareWorkspace(c)
  <2>1. PICK pc \in {"copying", "made"} : CopyGoes(c, pc) /\ (pc = "copying" <=> Duplicating)
    BY <1>9 DEF PrepareWorkspace
  <2>2. /\ copy' = [copy EXCEPT ![p] = "prepared"] /\ UNCHANGED <<projects, files, whole>>
        /\ copier[c].pc = "created" /\ Made(p)
    BY <1>0, <1>2, <1>9 DEF PrepareWorkspace, CopyAt, PlaceTrue
  <2>3. \A q \in ProjectIds : Made(q)' <=> Made(q)
    BY <1>2, <2>2 DEF RowsTrue, Made
  <2>4. whole \subseteq ProjectIds
    BY DEF CopyInv, CopyTypes
  <2>5. RowsTrue'
    BY <1>1, <1>2, <2>2 DEF RowsTrue
  <2>6. WholeTrue' /\ PlaceTrue(pc, p, w)'
    BY <1>1, <1>2, <2>1, <2>2, <2>3, <2>4 DEF WholeTrue, Duplicating, PlaceTrue
  <2>7. \A d \in Copiers : d # c => PlaceTrue(copier[d].pc, copier[d].prj, copier[d].wrk)'
    <3>1. TAKE d \in Copiers
    <3>2. HAVE d # c
    <3>3. copier'[d] = copier[d]
      BY <1>4, <2>1, <3>2 DEF Caller, CopyPcs
    <3>4. PICK pd, q, v : pd = copier[d].pc /\ q = copier[d].prj /\ v = copier[d].wrk
      OBVIOUS
    <3>5. PlaceTrue(pd, q, v) /\ (pd \notin {"idle", "done"} /\ pd # "fails" => q \in ProjectIds)
      BY <3>4, CallerFields DEF Active
    <3>6. PlaceTrue(pd, q, v)'
      BY <1>1, <2>2, <2>3, <3>5 DEF PlaceTrue, Duplicating
    <3>7. QED BY <3>3, <3>4, <3>6
  <2>8. QED BY <1>3, <2>1, <2>3, <2>5, <2>6, <2>7 DEF CopyPcs, Making
<1>10. CASE CopyFile(c)
  <2>1. /\ copier[c].pc = "copying" /\ UNCHANGED <<projects, copy, whole, copier>> /\ files[p] < Files
        /\ files' = [files EXCEPT ![p] = @ + 1]
    BY <1>0, <1>10 DEF CopyFile, CopyAt
  <2>2. p \notin whole /\ files[p] \in 0 .. Files
    BY <1>2, <2>1 DEF PlaceTrue, RowsTrue
  <2>n. PICK n \in 0 .. Files : n = files[p] + 1
    BY <2>1, <2>2, CopiersAssumption
  <2>3. files' = [files EXCEPT ![p] = n]
    BY <2>1, <2>n
  <2>4. RowsTrue' /\ WholeTrue' /\ PlaceTrue("copying", p, w)'
    BY <1>1, <1>2, <2>1, <2>2, <2>n, <2>3 DEF RowsTrue, WholeTrue, Made, Duplicating, PlaceTrue
  <2>5. Caller(c, "copying", p, w)
    BY <1>0, <2>1 DEF Caller, CopyInv, CopyTypes
  <2>6. Single => (\A q \in ProjectIds : Made(q)' => q = res'.prj) /\ Only("copying", p)'
    BY <1>1, <1>2, <2>1 DEF Only, Made
  <2>7. \A d \in Copiers : d # c => PlaceTrue(copier[d].pc, copier[d].prj, copier[d].wrk)'
    BY <1>1, <2>5, <2>1, OthersUndisturbed
  <2>8. QED BY <1>0, <1>1, <1>2, <2>1, <2>4, <2>5, <2>6, <2>7, ActiveStep DEF CopyPcs, Making
<1>11. CASE Report(c)
  <2>1. /\ copier[c].pc = "copying" /\ UNCHANGED <<projects, copy, files>> /\ files[p] = Files
        /\ whole' = whole \cup {p} /\ CopyGoes(c, "made") /\ Made(p) /\ Duplicating
    BY <1>0, <1>2, <1>11 DEF Report, CopyAt, Copied, PlaceTrue
  <2>2. RowsTrue' /\ WholeTrue' /\ PlaceTrue("made", p, w)'
    BY <1>1, <1>2, <2>1 DEF RowsTrue, WholeTrue, Made, Duplicating, PlaceTrue
  <2>3. \A d \in Copiers : d # c => PlaceTrue(copier[d].pc, copier[d].prj, copier[d].wrk)'
    <3>1. TAKE d \in Copiers
    <3>2. HAVE d # c
    <3>3. copier'[d] = copier[d]
      BY <1>4, <2>1, <3>2 DEF Caller, CopyPcs
    <3>4. PICK pd, q, v : pd = copier[d].pc /\ q = copier[d].prj /\ v = copier[d].wrk
      OBVIOUS
    <3>5. PlaceTrue(pd, q, v) /\ (pd \in Making => q # p)
      BY <1>2, <3>2, <3>4, CallerFields
    <3>6. PlaceTrue(pd, q, v)'
      BY <1>1, <2>1, <3>5 DEF PlaceTrue, Duplicating, Made, Making
    <3>7. QED BY <3>3, <3>4, <3>6
  <2>4. QED BY <1>3, <2>1, <2>2, <2>3 DEF CopyPcs, Making, Made
<1>12. CASE Trip(c)
  <2>1. PICK pc \in {"cleaning", "failing"} :
           CopyGoes(c, pc) /\ (pc = "cleaning" => copier[c].pc = "copying")
    BY <1>12 DEF Trip, CopyAt
  <2>2. /\ UNCHANGED <<projects, copy, whole>>
        /\ files' = files \/ (files' = [files EXCEPT ![p] = 0] /\ copier[c].pc = "copying")
    BY <1>0, <1>12 DEF Trip, CopyAt
  <2>3. RowsTrue'
    <3>1. 0 \in 0 .. Files
      BY CopiersAssumption
    <3>2. QED BY <1>1, <1>2, <2>2, <3>1 DEF RowsTrue
  <2>4. PlaceTrue(pc, p, w)'
    BY <1>1, <1>2, <2>1, <2>2 DEF PlaceTrue, Duplicating, Made
  <2>w. WholeTrue'
    <3>1. copier[c].pc = "copying" => Duplicating /\ p \notin whole
      BY <1>2 DEF PlaceTrue
    <3>2. Duplicating => \A q \in whole : files'[q] = files[q]
      BY <1>2, <2>2, <3>1, RowsAre DEF RowsTrue, CopyInv, CopyTypes
    <3>3. QED BY <1>1, <1>2, <2>2, <3>2 DEF WholeTrue, Made, Duplicating
  <2>5. QED BY <1>3, <1>5, <2>1, <2>2, <2>3, <2>4, <2>w DEF CopyPcs, Making, Made
<1>13. QED BY <1>0, <1>6, <1>7, <1>8, <1>9, <1>10, <1>11, <1>12

\* The steps that take something away
LEMMA CleanKept == ASSUME CopyInv, NEW c \in Copiers, CleanWorker(c) PROVE CopyInv'
<1>0. PICK p, w : p = copier[c].prj /\ w = copier[c].wrk
  OBVIOUS
<1>1. /\ copier[c].pc = "cleaning" /\ Active(c) /\ UNCHANGED <<kind, prompt, res, ids, projects, files, whole, used>>
      /\ CopyGoes(c, "failing")
  BY DEF CleanWorker, CopyAt, Active
<1>2. /\ RowsTrue /\ WholeTrue /\ p \in ProjectIds /\ p \in 1 .. ids /\ w \in SomeId /\ p \in SomeId
      /\ PlaceTrue(copier[c].pc, p, w) /\ Made(p) /\ Duplicating
      /\ Single => Only(copier[c].pc, p) /\ p = res.prj /\ \A q \in ProjectIds : Made(q) => q = res.prj
      /\ \A d \in Copiers : d # c /\ copier[d].pc \in Making => copier[d].prj # p
  BY <1>0, <1>1, ActiveFields, RowsAre DEF SomeId, Only, Making, PlaceTrue
<1>3. PICK v \in {"none", "failed"} : copy' = [copy EXCEPT ![p] = v] /\ (v = "none" => p \notin whole)
  <2>1. copy' \in {[copy EXCEPT ![p] = IF Unstarted(p) THEN "none" ELSE "failed"], [copy EXCEPT ![p] = "failed"]}
    BY <1>0 DEF CleanWorker
  <2>2. Unstarted(p) => p \notin whole
    BY <1>2 DEF Unstarted, Made
  <2>3. QED BY <2>1, <2>2
<1>4. \A q \in ProjectIds : /\ q # p => (Made(q)' <=> Made(q))
                            /\ Made(q)' => Made(q)
                            /\ q \in whole => Made(q)'
  BY <1>2, <1>3 DEF RowsTrue, WholeTrue, Made
<1>5. whole \subseteq ProjectIds
  BY DEF CopyInv, CopyTypes
<1>6. RowsTrue'
  BY <1>1, <1>2, <1>3 DEF RowsTrue
<1>7. WholeTrue'
  BY <1>1, <1>2, <1>4, <1>5 DEF WholeTrue, Duplicating
<1>8. Caller(c, "failing", p, w)
  BY <1>0, <1>1, CallerGoes DEF CopyPcs
<1>9. PlaceTrue("failing", p, w)'
  BY <1>1, <1>2 DEF PlaceTrue, Duplicating
<1>10. Single => (\A q \in ProjectIds : Made(q)' => q = res'.prj) /\ Only("failing", p)'
  BY <1>1, <1>2, <1>4 DEF Only
<1>11. \A d \in Copiers : d # c => PlaceTrue(copier[d].pc, copier[d].prj, copier[d].wrk)'
  <2>1. TAKE d \in Copiers
  <2>2. HAVE d # c
  <2>3. copier'[d] = copier[d]
    BY <1>8, <2>2 DEF Caller
  <2>4. PICK pd, q, u : pd = copier[d].pc /\ q = copier[d].prj /\ u = copier[d].wrk
    OBVIOUS
  <2>5. /\ PlaceTrue(pd, q, u) /\ (pd \in Making => q # p)
        /\ pd \notin {"idle", "done"} /\ pd # "fails" => q \in ProjectIds
    BY <1>2, <2>2, <2>4, CallerFields DEF Active
  <2>6. PlaceTrue(pd, q, u)'
    BY <1>1, <1>2, <1>4, <2>5 DEF PlaceTrue, Duplicating, Making
  <2>7. QED BY <2>3, <2>4, <2>6
<1>12. QED BY <1>0, <1>1, <1>2, <1>6, <1>7, <1>8, <1>9, <1>10, <1>11, ActiveStep DEF CopyPcs, Making

LEMMA LeftoverKept == ASSUME CopyInv, NEW c \in Copiers, FailingLooks(c) \/ RecoveryFails(c) PROVE CopyInv'
<1>0. PICK p : p = copier[c].prj
  OBVIOUS
<1>1. /\ Active(c) /\ copier[c].pc \in {"failing", "recovering"} /\ Duplicating
      /\ UNCHANGED <<kind, prompt, res, ids, copy, files, whole, used>> /\ DeleteEmpty(p)
      /\ copier' = [copier EXCEPT ![c] = [pc |-> "fails", prj |-> LeftOver(p).prj, wrk |-> LeftOver(p).wrk]]
  BY <1>0, CallerFields DEF FailingLooks, RecoveryFails, CopyAt, Active, PlaceTrue
<1>2. /\ RowsTrue /\ WholeTrue /\ p \in ProjectIds /\ ids \in 0 .. MaxProjects /\ ids \in Nat
      /\ Single => Only(copier[c].pc, p) /\ p = res.prj /\ \A q \in ProjectIds : Made(q) => q = res.prj
  BY <1>0, <1>1, ActiveFields, RowsAre DEF Only
<1>3. PICK l \in SomeId, w \in SomeId : l = LeftOver(p).prj /\ w = LeftOver(p).wrk /\ (Made(p) => l = p)
  BY <1>2 DEF LeftOver, SomeId, Made, WholeTrue
<1>4. Caller(c, "fails", l, w)
  BY <1>1, <1>3, CallerIs DEF CopyPcs
<1>5. RowsTrue' /\ WholeTrue' /\ PlaceTrue("fails", l, w)'
  BY <1>1, <1>2 DEF RowsTrue, WholeTrue, DeleteEmpty, Made, Duplicating, PlaceTrue
<1>6. Single => (\A q \in ProjectIds : Made(q)' => q = res'.prj) /\ Only("fails", l)'
  BY <1>1, <1>2, <1>3 DEF Only, Made
<1>7. Owes(c, "fails", l, w)
  BY <1>1, <1>2, <1>4, <1>5, <1>6 DEF Owes, Making
<1>8. QED BY <1>1, <1>4, <1>5, <1>7, CopyStep, OthersUndisturbed DEF CopyPcs

LEMMA FailKept == ASSUME CopyInv, NEW c \in Copiers, Fail(c) PROVE CopyInv'
<1>0. PICK p, w : p = copier[c].prj /\ w = copier[c].wrk
  OBVIOUS
<1>1. /\ Active(c) /\ copier[c].pc = "fails" /\ CopyGoes(c, "done")
      /\ UNCHANGED <<kind, prompt, ids, projects, copy, files, whole, used>>
      /\ \/ res' = res /\ res.status # "pending"
         \/ res.status = "pending" /\ res' = [res EXCEPT !.status = "failed", !.prj = p, !.wrk = w]
  BY <1>0 DEF Fail, CopyAt, Active
<1>2. /\ RowsTrue /\ WholeTrue /\ p \in SomeId /\ w \in SomeId /\ ids \in 0 .. MaxProjects /\ ids \in Nat
      /\ Single => Only("fails", p)
  BY <1>0, <1>1, CallerFields, RowsAre
<1>3. Caller(c, "done", p, w)
  BY <1>0, <1>1, CallerGoes DEF CopyPcs
<1>4. /\ res' \in [status : {"none", "pending", "completed", "failed"}, prj : SomeId, wrk : SomeId,
                   stale : BOOLEAN]
      /\ res' = res \/ (res'.status = "failed" /\ res'.prj = p)
  BY <1>1, <1>2 DEF RowsTrue
<1>5. RowsTrue' /\ WholeTrue' /\ PlaceTrue("done", p, w)'
  BY <1>1, <1>2, <1>4 DEF RowsTrue, WholeTrue, Made, Duplicating, PlaceTrue
<1>6. Single => \A q \in ProjectIds : Made(q)' => q = res'.prj
  <2>1. Single => res.status = "pending" /\ \A q \in ProjectIds : Made(q) => q = p
    BY <1>2 DEF Only
  <2>2. Single => res'.prj = p
    BY <1>1, <1>2, <2>1 DEF RowsTrue
  <2>3. QED BY <1>1, <2>1, <2>2 DEF Made
<1>7. Owes(c, "done", p, w)
  BY <1>1, <1>2, <1>3, <1>5, <1>6 DEF Owes, Making
<1>8. QED BY <1>1, <1>2, <1>3, <1>5, <1>7, CopyStep, OthersUndisturbed DEF CopyPcs

LEMMA RollbackKept == ASSUME CopyInv, NEW c \in Copiers, RollbackDeletes(c) PROVE CopyInv'
<1>0. PICK p, w : p = copier[c].prj /\ w = copier[c].wrk
  OBVIOUS
<1>1. /\ copier[c].pc = "stopping" /\ Active(c) /\ UNCHANGED <<kind, prompt, res, ids, files, used>>
  BY DEF RollbackDeletes, CopyAt, Active
<1>2. /\ RowsTrue /\ WholeTrue /\ p \in ProjectIds /\ p \in 1 .. ids /\ w \in SomeId /\ p \in SomeId
      /\ ~Duplicating /\ (w # NoProject => Made(p))
      /\ Only("stopping", p) /\ p = res.prj /\ \A q \in ProjectIds : Made(q) => q = res.prj
      /\ \A d \in Copiers : d # c => ~Active(d)
  BY <1>0, <1>1, ActiveFields, RowsAre DEF SomeId, Only, PlaceTrue, Single
<1>3. res.status = "failed"
  BY <1>2 DEF Only
<1>4. ASSUME NEW pc \in {"deleted", "done"}, CopyGoes(c, pc), RowsTrue', WholeTrue',
             \A q \in ProjectIds : Made(q)' => q = p /\ pc = "done"
      PROVE  CopyInv'
  <2>1. Caller(c, pc, p, w)
    BY <1>0, <1>4, CallerGoes DEF CopyPcs
  <2>2. PlaceTrue(pc, p, w)'
    BY <1>1, <1>2, <1>4 DEF PlaceTrue, Duplicating
  <2>3. (\A q \in ProjectIds : Made(q)' => q = res'.prj) /\ (pc # "done" => Only(pc, p)')
    BY <1>1, <1>2, <1>3, <1>4 DEF Only
  <2>4. \A d \in Copiers : d # c => PlaceTrue(copier[d].pc, copier[d].prj, copier[d].wrk)'
    <3>1. \A d \in Copiers : d # c => copier'[d].pc \in {"idle", "done"}
      BY <1>2, <2>1 DEF Caller, Active
    <3>2. QED BY <3>1 DEF PlaceTrue
  <2>5. QED BY <1>0, <1>1, <1>2, <1>4, <2>1, <2>2, <2>3, <2>4, ActiveStep DEF CopyPcs, Making
<1>5. CASE /\ copy' = [copy EXCEPT ![p] = "none"] /\ projects' = projects \ {p}
           /\ whole' = whole \ {p} /\ CopyGoes(c, "deleted")
  <2>1. \A q \in ProjectIds : ~Made(q)'
    BY <1>2, <1>5 DEF RowsTrue, Made
  <2>2. RowsTrue'
    BY <1>1, <1>2, <1>5 DEF RowsTrue
  <2>3. WholeTrue'
    BY <1>1, <1>2, <1>3, <2>1 DEF WholeTrue, Duplicating
  <2>4. QED BY <1>4, <1>5, <2>1, <2>2, <2>3
<1>6. CASE /\ w # NoProject /\ copy' \in {copy, [copy EXCEPT ![p] = "failed"]}
           /\ CopyGoes(c, "done") /\ UNCHANGED <<projects, whole>>
  <2>1. \A q \in ProjectIds : Made(q)' <=> Made(q)
    BY <1>2, <1>6 DEF RowsTrue, Made
  <2>2. RowsTrue'
    BY <1>1, <1>2, <1>6 DEF RowsTrue
  <2>3. WholeTrue'
    BY <1>1, <1>2, <1>3, <1>6, <2>1 DEF WholeTrue, Duplicating
  <2>4. QED BY <1>2, <1>4, <1>6, <2>1, <2>2, <2>3
<1>7. QED BY <1>0, <1>5, <1>6 DEF RollbackDeletes

\* The steps of nobody who makes a workspace
LEMMA OutsideSteps ==
    ASSUME CopyInv, ReservationAges \/ CopyCrash \/ (\E p \in ProjectIds : Use(p)) \/ UNCHANGED copyVars
    PROVE  CopyInv'
<1>1. UNCHANGED <<kind, prompt, ids, projects, copy, files, whole>>
  BY DEF ReservationAges, CopyCrash, Use, copyVars
<1>2. /\ res' \in [status : {"none", "pending", "completed", "failed"}, prj : SomeId, wrk : SomeId,
                   stale : BOOLEAN]
      /\ res'.status = res.status /\ res'.prj = res.prj /\ res'.wrk = res.wrk
  BY DEF ReservationAges, CopyCrash, Use, copyVars, CopyInv, CopyTypes
<1>3. used' \subseteq ProjectIds /\ (used \subseteq whole => used' \subseteq whole)
  BY DEF ReservationAges, CopyCrash, Use, Runnable, copyVars, CopyInv, CopyTypes
<1>4. /\ copier' \in [Copiers -> [pc : CopyPcs, prj : SomeId, wrk : SomeId]]
      /\ \A c \in Copiers : copier'[c] = copier[c] \/ copier'[c].pc = "done"
  BY DEF ReservationAges, CopyCrash, Use, copyVars, CopyInv, CopyTypes, CopyAt, CopyPcs
<1>5. CopyTypes'
  BY <1>1, <1>2, <1>3, <1>4 DEF CopyInv, CopyTypes
<1>6. ProjectsOwned'
  BY <1>1, <1>2, <1>4 DEF CopyInv, ProjectsOwned, Active, Making
<1>7. PlacesTrue'
  <2>1. SUFFICES ASSUME NEW c \in Copiers PROVE PlaceTrue(copier[c].pc, copier[c].prj, copier[c].wrk)'
    BY DEF PlacesTrue
  <2>2. PICK pc, q, u : pc = copier[c].pc /\ q = copier[c].prj /\ u = copier[c].wrk
    OBVIOUS
  <2>3. PlaceTrue(pc, q, u)
    BY <2>2, CallerFields
  <2>4. PlaceTrue(pc, q, u)'
    BY <1>1, <2>3 DEF PlaceTrue, Made, Duplicating
  <2>5. CASE copier'[c] = copier[c]
    BY <2>2, <2>4, <2>5
  <2>6. CASE copier'[c].pc = "done"
    BY <2>6 DEF PlaceTrue
  <2>7. QED BY <1>4, <2>5, <2>6
<1>8. WholeTrue'
  BY <1>1, <1>2, <1>3 DEF CopyInv, WholeTrue, Made, Duplicating
<1>9. OneActive'
  <2>1. (Single' <=> Single) /\ \A q \in ProjectIds : Made(q)' <=> Made(q)
    BY <1>1 DEF Single, Duplicating, Made
  <2>2. \A c \in Copiers : Active(c)' => Active(c) /\ copier'[c] = copier[c]
    BY <1>4 DEF Active
  <2>3. SUFFICES ASSUME Single
                 PROVE  \A c \in Copiers : Active(c)' => Only(copier[c].pc, copier[c].prj)'
    BY <1>2, <2>1, <2>2 DEF CopyInv, OneActive
  <2>4. TAKE c \in Copiers
  <2>5. HAVE Active(c)'
  <2>6. PICK pc, q : pc = copier[c].pc /\ q = copier[c].prj
    OBVIOUS
  <2>7. Only(pc, q)
    BY <2>2, <2>3, <2>5, <2>6 DEF CopyInv, OneActive
  <2>8. Only(pc, q)'
    BY <1>2, <2>1, <2>7 DEF Only
  <2>9. QED BY <2>2, <2>5, <2>6, <2>8
<1>10. QED BY <1>5, <1>6, <1>7, <1>8, <1>9 DEF CopyInv

LEMMA CopiesTrue == ASSUME CopyInv PROVE CopiedOnceAndWhole
<1>1. OneCopy
  <2>1. SUFFICES ASSUME prompt PROVE Cardinality({p \in ProjectIds : copy[p] # "none"}) <= 1
    BY DEF OneCopy
  <2>2. {p \in ProjectIds : copy[p] # "none"} \subseteq {res.prj}
    BY <2>1 DEF CopyInv, OneActive, Single, Made
  <2>3. IsFiniteSet({res.prj}) /\ Cardinality({res.prj}) = 1
    BY FS_Singleton
  <2> DEFINE Remaining == {p \in ProjectIds : copy[p] # "none"}
  <2>4. IsFiniteSet(Remaining) /\ Cardinality(Remaining) <= Cardinality({res.prj})
    BY <2>2, <2>3, FS_Subset
  <2>5. QED BY <2>3, <2>4
<1>2. CopyIsWhole
  BY DEF CopyInv, WholeTrue, Made, CopyIsWhole
<1>3. QED BY <1>1, <1>2 DEF CopiedOnceAndWhole

(* One key makes one workspace as long as no call outlives the age of its reservation, and what is
   answered as completed, or accepts work, is a whole copy, for any number of requests and files,
   whatever fails, dies, is retried or is recovered in between. *)
THEOREM KeyMakesOneCopy == CopySpec => []CopiedOnceAndWhole
<1>1. CopyInit => CopyInv
  BY CopyStart
<1>2. CopyInv /\ [CopyNext]_copyVars => CopyInv'
  BY CallerSteps, ReserveKept, ReservationSteps, MakingSteps, CleanKept, LeftoverKept, FailKept,
     RollbackKept, OutsideSteps DEF CopyNext
<1>3. CopyInv => CopiedOnceAndWhole
  BY CopiesTrue
<1>4. QED BY <1>1, <1>2, <1>3, PTL DEF CopySpec
=============================================================================
