---------------------------- MODULE RestartProofs ----------------------------
(* Proofs about Restart: however often the service dies, is shut down and comes
   back, one generation at a time works on the run, and a result belongs to the
   attempt that the run names.                                               *)
EXTENDS Restart, TLAPS, FiniteSetTheorems

-----------------------------------------------------------------------------
Evidence == {"none", "answer", "done", "crashed", "killed"}

RunRow == [st : {"queued"} \cup Open \cup Settled, att : 0 .. MaxAttempts, n : 0 .. MaxAttempts]
Thread == [pc : {"idle", "grant", "arm", "admit", "invoke", "launch", "wait", "settle", "monitor",
                 "requeue"},
           att : 0 .. MaxAttempts, res : {"none"} \cup Settled]

(* The types that the argument needs.                                        *)
CoreTypes ==
    /\ run \in RunRow
    /\ alive \subseteq Attempts
    /\ marker \in [Attempts -> Evidence]
    /\ proc \in Thread /\ old \subseteq Attempts

(* Evidence and processes exist only for attempts that were admitted.        *)
FutureIsEmpty == \A b \in Attempts : b > run.n => marker[b] = "none" /\ b \notin alive

(* At most one generation is alive.                                          *)
OneAlive == \A a, b \in alive : a = b

(* An open run has an active attempt, which was admitted and had left nothing when it was. *)
ActiveIsNew ==
    /\ run.att <= run.n /\ run.att \notin old
    /\ run.st \in Open => run.att # 0

(* A result settles the run, and is the result of the active attempt if there
   is one.                                                                   *)
ResultIsCurrent ==
    /\ result # 0 => run.st \in Settled
    /\ result # 0 /\ run.att # 0 => result = run.att

(* A processor that settles the run knows an outcome.                        *)
OutcomeKnown == proc.pc = "settle" => proc.res \in Settled

RsInv == CoreTypes /\ FutureIsEmpty /\ OneAlive /\ ActiveIsNew /\ ResultIsCurrent /\ OutcomeKnown

(* What every step does to the run: a settled run stays as it is.            *)
SettledStays == run.st \in Settled => run' = run /\ result' = result

LEMMA Bounded == MaxAttempts \in Nat
BY RsBounds

LEMMA InitInv == RsInit => RsInv
<1> SUFFICES ASSUME RsInit PROVE RsInv OBVIOUS
<1>1. CoreTypes
  <2>1. proc = [pc |-> "idle", att |-> 0, res |-> "none"] /\ run = [st |-> "queued", att |-> 0, n |-> 0]
    BY DEF RsInit, Idle
  <2>2. alive \subseteq Attempts /\ old \subseteq Attempts /\ marker \in [Attempts -> Evidence]
    BY DEF RsInit, Evidence
  <2> QED BY <2>1, <2>2, Bounded DEF CoreTypes, RunRow, Thread
<1>2. FutureIsEmpty /\ OneAlive BY DEF RsInit, FutureIsEmpty, OneAlive
<1>3. ActiveIsNew BY DEF RsInit, ActiveIsNew, Open
<1>4. ResultIsCurrent BY DEF RsInit, ResultIsCurrent
<1>5. OutcomeKnown BY DEF RsInit, OutcomeKnown, Idle
<1> QED BY <1>1, <1>2, <1>3, <1>4, <1>5 DEF RsInv

(* Steps that touch neither the run nor what the generations left.           *)
LEMMA Frame ==
    ASSUME RsInv, CoreTypes', OutcomeKnown',
           UNCHANGED <<run, result, old, alive, marker>>
    PROVE  RsInv' /\ SettledStays
BY DEF RsInv, FutureIsEmpty, OneAlive, ActiveIsNew, ResultIsCurrent, SettledStays, Attempts

LEMMA ClaimStep == ASSUME RsInv, Claim PROVE RsInv' /\ SettledStays
<1>t. CoreTypes BY DEF RsInv
<1>n. run.n \in Nat /\ run.n + 1 \in 1 .. MaxAttempts BY <1>t, Bounded DEF CoreTypes, RunRow, Thread, Claim
<1>c. /\ run' = [st |-> "claimed", att |-> run.n + 1, n |-> run.n + 1]
      /\ proc' = [pc |-> "grant", att |-> run.n + 1, res |-> "none"]
      /\ UNCHANGED <<alive, marker, result>>
      /\ run.n < MaxAttempts /\ run.st = "queued"
      /\ old' = {a \in Attempts : marker[a] # "none"}
  BY DEF Claim, native
<1>1. CoreTypes' BY <1>t, <1>n, <1>c, Bounded DEF CoreTypes, RunRow, Thread, Open
<1>2. FutureIsEmpty'
  BY <1>t, <1>n, <1>c DEF RsInv, FutureIsEmpty, Attempts
<1>3. OneAlive' BY <1>c DEF RsInv, OneAlive
<1>4. ActiveIsNew'
  <2>1. marker[run.n + 1] = "none" BY <1>n DEF RsInv, FutureIsEmpty, Attempts
  <2> QED BY <1>n, <1>c, <2>1 DEF ActiveIsNew
<1>5. ResultIsCurrent' /\ OutcomeKnown' /\ SettledStays
  BY <1>c DEF RsInv, ResultIsCurrent, OutcomeKnown, SettledStays, Settled
<1> QED BY <1>1, <1>2, <1>3, <1>4, <1>5 DEF RsInv

LEMMA PreparationStep ==
    ASSUME RsInv, AdmitGrant \/ ArmRevocation \/ PreflightFails \/ StopRefused
    PROVE  RsInv' /\ SettledStays
<1> USE DEF durable, native, broker, memory
<1>1. CASE AdmitGrant
    <2>1. CoreTypes' BY <1>1 DEF RsInv, CoreTypes, Thread, AdmitGrant
    <2> QED BY <1>1, <2>1, Frame DEF RsInv, OutcomeKnown, AdmitGrant, CoreTypes
<1>2. CASE ArmRevocation
    <2>1. CoreTypes' BY <1>2 DEF RsInv, CoreTypes, Thread, ArmRevocation
    <2> QED BY <1>2, <2>1, Frame DEF RsInv, OutcomeKnown, ArmRevocation, CoreTypes
<1>3. CASE PreflightFails
    <2>1. CoreTypes' BY <1>3, Bounded DEF RsInv, CoreTypes, Thread, PreflightFails, ReleaseOwn, Fault, Settled
    <2> QED BY <1>3, <2>1, Frame DEF RsInv, OutcomeKnown, PreflightFails, CoreTypes, Settled
<1>4. CASE StopRefused
    <2>1. CoreTypes' BY <1>4, Bounded DEF RsInv, CoreTypes, Thread, StopRefused, Fault, Settled
    <2> QED BY <1>4, <2>1, Frame DEF RsInv, OutcomeKnown, StopRefused, CoreTypes, Settled
<1> QED BY <1>1, <1>2, <1>3, <1>4

-----------------------------------------------------------------------------
(* Processes only end, and only a process or evidence that is there leaves
   evidence.                                                                 *)
NativeStep ==
    /\ alive' \subseteq alive
    /\ marker' \in [Attempts -> Evidence]
    /\ \A b \in Attempts : marker[b] = "none" /\ b \notin alive => marker'[b] = "none"

(* The run is settled by its active attempt, or moves without a result.      *)
RunStep ==
    /\ run.st \notin Settled /\ run' \in RunRow /\ run'.n = run.n
    /\ run'.att = run.att \/ run'.att = 0
    /\ run'.st \in Open => run.st \in Open /\ run'.att = run.att
    /\ \/ result' = result
       \/ /\ run'.st \in Settled /\ run'.att = run.att
          /\ result' = 0 \/ run.att = 0 \/ result' = run.att

(* Neither.                                                                  *)
RunKept == run' = run /\ result' = result

LEMMA QuietStep ==
    ASSUME RsInv, old' = old, RunStep \/ RunKept, NativeStep, proc' \in Thread, OutcomeKnown'
    PROVE  RsInv' /\ SettledStays
<1>t. CoreTypes BY DEF RsInv
<1>n. run.n \in Nat /\ run.att \in Nat /\ run'.n = run.n /\ (run'.att = run.att \/ run'.att = 0)
  BY <1>t, Bounded DEF CoreTypes, RunRow, RunStep, RunKept
<1>1. CoreTypes' BY <1>t DEF CoreTypes, RunStep, RunKept, NativeStep
<1>2. FutureIsEmpty'
  BY <1>n DEF RsInv, FutureIsEmpty, NativeStep
<1>3. OneAlive' BY DEF RsInv, OneAlive, NativeStep
<1>4. ActiveIsNew'
  <2>o. run'.st \in Open => run.st \in Open /\ run'.att = run.att BY DEF RunStep, RunKept
  <2>1. CASE run'.att = run.att BY <1>n, <2>1, <2>o DEF RsInv, ActiveIsNew
  <2>2. CASE run'.att = 0
    <3>1. 0 \notin old BY DEF RsInv, CoreTypes, Attempts
    <3> QED BY <1>n, <2>2, <2>o, <3>1 DEF RsInv, ActiveIsNew
  <2> QED BY <1>n, <2>1, <2>2
<1>5. ResultIsCurrent' BY <1>t DEF RsInv, ResultIsCurrent, RunStep, RunKept
<1>6. SettledStays BY DEF SettledStays, RunStep, RunKept
<1> QED BY <1>1, <1>2, <1>3, <1>4, <1>5, <1>6 DEF RsInv

-----------------------------------------------------------------------------
(* What the steps of the model are made of.                                  *)

LEMMA StillNative == ASSUME RsInv, UNCHANGED <<alive, marker>> PROVE NativeStep
BY DEF RsInv, CoreTypes, NativeStep

LEMMA KillIsNative == ASSUME RsInv, NEW S, Kill(S) PROVE NativeStep
<1>t. CoreTypes BY DEF RsInv
<1>1. alive' = alive \ S
      /\ marker' = [a \in Attempts |->
                      IF a \in S \cap alive /\ marker[a] = "none" THEN "killed" ELSE marker[a]]
  BY DEF Kill
<1>2. marker' \in [Attempts -> Evidence] BY <1>t, <1>1 DEF CoreTypes, Evidence
<1> QED BY <1>1, <1>2 DEF NativeStep

LEMMA DowngradeSteps == ASSUME RsInv, run.st \notin Settled, Downgrade, result' = result PROVE RunStep
<1>1. run' = [run EXCEPT !.st = "queued", !.att = 0] BY DEF Downgrade
<1>2. run \in RunRow BY DEF RsInv, CoreTypes
<1>3. 0 \in 0 .. MaxAttempts BY Bounded
<1>4. run' \in RunRow /\ run'.n = run.n /\ run'.att = 0 /\ run'.st = "queued"
  BY <1>1, <1>2, <1>3 DEF RunRow
<1> QED BY <1>4 DEF RunStep, Open

LEMMA RequeueSteps == ASSUME RsInv, run.st \notin Settled, Requeue, result' = result PROVE RunStep
<1>1. run' = [run EXCEPT !.st = "queued", !.att = 0] BY DEF Requeue
<1>2. run \in RunRow BY DEF RsInv, CoreTypes
<1>3. 0 \in 0 .. MaxAttempts BY Bounded
<1>4. run' \in RunRow /\ run'.n = run.n /\ run'.att = 0 /\ run'.st = "queued"
  BY <1>1, <1>2, <1>3 DEF RunRow
<1> QED BY <1>4 DEF RunStep, Open

LEMMA RepairSteps == ASSUME RsInv, RepairRunning, result' = result PROVE RunStep \/ RunKept
<1>1. CASE run.st = "running" /\ ~Exact
  BY <1>1, DowngradeSteps DEF RepairRunning, Settled
<1>2. CASE ~(run.st = "running" /\ ~Exact)
  BY <1>2 DEF RepairRunning, RunKept
<1> QED BY <1>1, <1>2

LEMMA TerminalSteps ==
    ASSUME RsInv, run.st \notin Settled, NEW st \in Settled, NEW a, Terminal(st, a),
           a = 0 \/ run.att = 0 \/ a = run.att
    PROVE  RunStep
<1>1. run' = [run EXCEPT !.st = st] /\ result' = a BY DEF Terminal
<1>2. run \in RunRow BY DEF RsInv, CoreTypes
<1>3. run' \in RunRow /\ run'.n = run.n /\ run'.att = run.att /\ run'.st \in Settled
  BY <1>1, <1>2 DEF RunRow
<1>4. run'.st \notin Open BY <1>3 DEF Settled, Open
<1> QED BY <1>1, <1>3, <1>4 DEF RunStep

LEMMA OutcomeSettles == ASSUME NEW e PROVE Outcome(e) \in Settled
BY DEF Outcome, Settled

(* A collection settles the run by the attempt that it names, and by an older one only if it
   names none.                                                               *)
LEMMA CollectSteps ==
    ASSUME RsInv, run.st \notin Settled, Collect
    PROVE  NativeStep /\ (RunStep \/ RunKept) /\ old' = old
<1>t. CoreTypes BY DEF RsInv
<1>1. PICK a : a = Source OBVIOUS
<1>2. marker[a] # "none" /\ old' = old BY <1>1 DEF Collect, HasEvidence
<1>3. a = 0 \/ run.att = 0 \/ a = run.att BY <1>1 DEF Source
<1>4. CASE marker[a] = "answer"
  <2>1. alive' = alive \ {a} /\ marker' = [marker EXCEPT ![a] = "done"]
        /\ (Terminal("completed", a) \/ RunKept)
    BY <1>1, <1>4 DEF Collect, RunKept
  <2>2. NativeStep BY <2>1, <1>2, <1>t DEF NativeStep, CoreTypes, Evidence
  <2>3. "completed" \in Settled BY DEF Settled
  <2>4. Terminal("completed", a) => RunStep BY <2>3, <1>3, TerminalSteps
  <2> QED BY <2>1, <2>2, <2>4, <1>2
<1>5. CASE marker[a] # "answer"
  <2>1. UNCHANGED <<alive, marker>> /\ (Terminal(Outcome(marker[a]), a) \/ RunKept)
    BY <1>1, <1>5 DEF Collect, RunKept
  <2>2. Terminal(Outcome(marker[a]), a) => RunStep BY OutcomeSettles, <1>3, TerminalSteps
  <2> QED BY <2>1, <2>2, <1>2, StillNative
<1> QED BY <1>4, <1>5

LEMMA IdleThread == Idle \in Thread /\ Idle.pc # "settle"
BY Bounded DEF Idle, Thread

LEMMA ProcKept == ASSUME RsInv, proc' = proc PROVE proc' \in Thread /\ OutcomeKnown'
BY DEF RsInv, CoreTypes, OutcomeKnown

LEMMA ProcIdle == ASSUME proc' = Idle PROVE proc' \in Thread /\ OutcomeKnown'
BY IdleThread DEF OutcomeKnown

LEMMA ProcFails ==
    ASSUME RsInv, NEW res \in Settled, proc' = [proc EXCEPT !.pc = "settle", !.res = res]
    PROVE  proc' \in Thread /\ OutcomeKnown'
BY DEF RsInv, CoreTypes, Thread, OutcomeKnown

-----------------------------------------------------------------------------
(* The processor.                                                            *)

LEMMA AdmitRunStep == ASSUME RsInv, AdmitRun PROVE RsInv' /\ SettledStays
<1>n. NativeStep /\ old' = old /\ result' = result BY StillNative DEF AdmitRun, native
<1>r. run \in RunRow BY DEF RsInv, CoreTypes
<1>1. CASE run.st = "claimed" /\ run.att = proc.att /\ Exact
  <2>1. run' = [run EXCEPT !.st = "admitted"] /\ proc' = [proc EXCEPT !.pc = "invoke"]
    BY <1>1 DEF AdmitRun
  <2>2. RunStep BY <2>1, <1>n, <1>1, <1>r DEF RunStep, RunRow, Settled, Open
  <2>3. proc' \in Thread /\ OutcomeKnown' BY <2>1 DEF RsInv, CoreTypes, Thread, OutcomeKnown
  <2> QED BY <2>2, <2>3, <1>n, QuietStep
<1>2. CASE ~(run.st = "claimed" /\ run.att = proc.att /\ Exact)
  <2>1. RunKept /\ proc' = [proc EXCEPT !.pc = "settle", !.res = "failed"]
    BY <1>2, <1>n DEF AdmitRun, RunKept
  <2>2. "failed" \in Settled BY DEF Settled
  <2>3. proc' \in Thread /\ OutcomeKnown' BY <2>1, <2>2, ProcFails
  <2> QED BY <2>1, <2>3, <1>n, QuietStep
<1> QED BY <1>1, <1>2

LEMMA InvokeStep == ASSUME RsInv, Invoke PROVE RsInv' /\ SettledStays
<1>n. NativeStep /\ old' = old /\ result' = result BY StillNative DEF Invoke, native
<1>r. run \in RunRow BY DEF RsInv, CoreTypes
<1>1. CASE run.st = "admitted" /\ run.att = proc.att /\ Exact
  <2>1. run' = [run EXCEPT !.st = "running"] /\ proc' = [proc EXCEPT !.pc = "launch"]
    BY <1>1 DEF Invoke
  <2>2. RunStep BY <2>1, <1>n, <1>1, <1>r DEF RunStep, RunRow, Settled, Open
  <2>3. proc' \in Thread /\ OutcomeKnown' BY <2>1 DEF RsInv, CoreTypes, Thread, OutcomeKnown
  <2> QED BY <2>2, <2>3, <1>n, QuietStep
<1>2. CASE ~(run.st = "admitted" /\ run.att = proc.att /\ Exact)
  <2>1. RunKept /\ proc' = Idle BY <1>2, <1>n DEF Invoke, RunKept
  <2> QED BY <2>1, <1>n, ProcIdle, QuietStep
<1> QED BY <1>1, <1>2

(* The only step that brings a generation to life.                           *)
LEMMA StartSessionStep == ASSUME RsInv, StartSession PROVE RsInv' /\ SettledStays
<1>t. CoreTypes BY DEF RsInv
<1>1. /\ run.st = "running" /\ run.att = proc.att
      /\ alive' = {proc.att}
      /\ marker' = [b \in Attempts |-> IF b \in alive /\ marker[b] = "none" THEN "killed"
                                       ELSE marker[b]]
      /\ proc' = [proc EXCEPT !.pc = "wait"]
      /\ UNCHANGED <<old, run, result>>
  BY DEF StartSession, Startable, Replaced
<1>2. run.att # 0
  BY <1>1 DEF RsInv, ActiveIsNew, Open
<1>3. run.att \in Attempts /\ run.att <= run.n /\ run.n \in Nat
  BY <1>t, <1>2, Bounded DEF CoreTypes, RunRow, Attempts, RsInv, ActiveIsNew
<1>4. marker' \in [Attempts -> Evidence] BY <1>1, <1>t DEF CoreTypes, Evidence
<1>5. proc' \in Thread /\ OutcomeKnown' BY <1>1, <1>t DEF CoreTypes, Thread, OutcomeKnown
<1>6. CoreTypes' BY <1>1, <1>3, <1>4, <1>5, <1>t DEF CoreTypes
<1>7. FutureIsEmpty'
  BY <1>1, <1>3, <1>t DEF RsInv, FutureIsEmpty, CoreTypes, Attempts
<1>8. OneAlive' BY <1>1 DEF OneAlive
<1> QED BY <1>1, <1>5, <1>6, <1>7, <1>8 DEF RsInv, ActiveIsNew, ResultIsCurrent, SettledStays

LEMMA StartRejectedStep == ASSUME RsInv, StartRejected PROVE RsInv' /\ SettledStays
<1>1. Kill(alive) /\ proc' = Idle /\ old' = old /\ result' = result
  BY DEF StartRejected
<1>2. NativeStep BY <1>1, KillIsNative
<1>3. RunStep \/ RunKept
  <2>1. CASE run.st = "running" /\ run.att = proc.att
    BY <2>1, <1>1, DowngradeSteps DEF StartRejected, Settled
  <2>2. CASE ~(run.st = "running" /\ run.att = proc.att)
    BY <2>2, <1>1 DEF StartRejected, RunKept
  <2> QED BY <2>1, <2>2
<1> QED BY <1>1, <1>2, <1>3, ProcIdle, QuietStep

LEMMA WaitEndsStep == ASSUME RsInv, WaitEnds PROVE RsInv' /\ SettledStays
<1>t. CoreTypes BY DEF RsInv
<1>k. old' = old /\ RunKept BY DEF WaitEnds, durable, RunKept
<1>1. PICK a : a = proc.att OBVIOUS
<1>2. \E res \in Settled : proc' = [proc EXCEPT !.pc = "settle", !.res = res]
  <2>1. {"interrupted", "completed", "failed"} \subseteq Settled BY DEF Settled
  <2> QED BY <2>1, OutcomeSettles DEF WaitEnds
<1>3. proc' \in Thread /\ OutcomeKnown' BY <1>2, ProcFails
<1>4. \/ UNCHANGED <<alive, marker>>
      \/ marker[a] = "answer" /\ alive' = alive \ {a} /\ marker' = [marker EXCEPT ![a] = "done"]
      \/ Kill({a})
  BY <1>1 DEF WaitEnds
<1>5. CASE UNCHANGED <<alive, marker>> BY <1>5, <1>k, <1>3, StillNative, QuietStep
<1>6. CASE marker[a] = "answer" /\ alive' = alive \ {a} /\ marker' = [marker EXCEPT ![a] = "done"]
  <2>1. NativeStep BY <1>6, <1>t DEF NativeStep, CoreTypes, Evidence
  <2> QED BY <2>1, <1>k, <1>3, QuietStep
<1>7. CASE Kill({a})
  <2>1. NativeStep BY <1>7, KillIsNative
  <2> QED BY <2>1, <1>k, <1>3, QuietStep
<1> QED BY <1>4, <1>5, <1>6, <1>7

LEMMA SettleStep == ASSUME RsInv, Settle PROVE RsInv' /\ SettledStays
<1>1. NativeStep /\ old' = old /\ proc' = Idle BY StillNative DEF Settle, native
<1>2. proc.res \in Settled BY DEF RsInv, OutcomeKnown, Settle
<1>3. \/ run.st \in Open /\ run.att = proc.att /\ Terminal(proc.res, proc.att)
      \/ RunKept
  BY DEF Settle, RunKept
<1>4. CASE run.st \in Open /\ run.att = proc.att /\ Terminal(proc.res, proc.att)
  <2>1. run.st \notin Settled BY <1>4 DEF Open, Settled
  <2>2. RunStep BY <2>1, <1>2, <1>4, TerminalSteps
  <2> QED BY <2>2, <1>1, ProcIdle, QuietStep
<1>5. CASE RunKept BY <1>5, <1>1, ProcIdle, QuietStep
<1> QED BY <1>3, <1>4, <1>5

LEMMA ProcessorStep == ASSUME RsInv, Processor PROVE RsInv' /\ SettledStays
BY ClaimStep, PreparationStep, AdmitRunStep, InvokeStep, StartSessionStep, StartRejectedStep,
   WaitEndsStep, SettleStep DEF Processor

-----------------------------------------------------------------------------
(* The monitor, the shutdown and the startup.                                *)

LEMMA MonitorStep == ASSUME RsInv, Monitor PROVE RsInv' /\ SettledStays
<1>1. CASE MonitorCollects
  BY <1>1, CollectSteps, ProcIdle, QuietStep DEF MonitorCollects
<1>2. CASE MonitorEnds
  BY <1>2, StillNative, ProcIdle, QuietStep DEF MonitorEnds, native, RunKept
<1>3. CASE MonitorFindsGone
  <2>1. RunKept /\ old' = old /\ NativeStep BY <1>3, StillNative DEF MonitorFindsGone, native, RunKept
  <2>2. proc' = [proc EXCEPT !.pc = "requeue", !.att = run.att] BY <1>3 DEF MonitorFindsGone
  <2>3. proc' \in Thread /\ OutcomeKnown'
    BY <2>2 DEF RsInv, CoreTypes, RunRow, Thread, OutcomeKnown
  <2> QED BY <2>1, <2>3, QuietStep
<1>4. CASE MonitorRequeues
  <2>1. proc' = Idle /\ old' = old /\ result' = result /\ NativeStep
    BY <1>4, StillNative DEF MonitorRequeues, native
  <2>2. RunStep \/ RunKept
    BY <1>4, <2>1, RequeueSteps DEF MonitorRequeues, RunKept, Settled
  <2> QED BY <2>1, <2>2, ProcIdle, QuietStep
<1> QED BY <1>1, <1>2, <1>3, <1>4 DEF Monitor

LEMMA ShutdownStep == ASSUME RsInv, Shutdown PROVE RsInv' /\ SettledStays
<1> USE DEF durable, native
<1>1. CASE StopGeneration
  <2>1. old' = old /\ RunKept /\ proc' = proc BY <1>1 DEF StopGeneration, RunKept
  <2>2. Kill({memo.claimed}) \/ UNCHANGED <<alive, marker>>
    BY <1>1 DEF StopGeneration, CleanUp
  <2>3. NativeStep BY <2>2, KillIsNative, StillNative
  <2> QED BY <2>1, <2>3, ProcKept, QuietStep
<1>2. CASE Exit
  BY <1>2, StillNative, ProcKept, QuietStep DEF Exit, RunKept
<1>3. CASE RetainGeneration \/ NoteRetained \/ ClaimLease \/ ReleaseLease
  <2>1. old' = old /\ RunKept /\ proc' = proc /\ UNCHANGED <<alive, marker>>
    BY <1>3 DEF RetainGeneration, NoteRetained, ClaimLease, ReleaseLease, RunKept
  <2> QED BY <2>1, StillNative, ProcKept, QuietStep
<1> QED BY <1>1, <1>2, <1>3 DEF Shutdown

(* A stale lease is revived, collected, cleaned up or fenced.                *)
LEMMA StaleSteps ==
    ASSUME RsInv, StaleLease
    PROVE  NativeStep /\ (RunStep \/ RunKept) /\ old' = old
<1> USE DEF native
<1>s. run.st \notin Settled BY DEF StaleLease, Stale
<1>1. CASE StaleConfirmed
  <2>1. CASE Verified
    BY <1>1, <2>1, StillNative DEF StaleConfirmed, RunKept
  <2>2. CASE ~Verified /\ Collect BY <1>s, <2>2, CollectSteps
  <2>3. CASE /\ CleanUp(lease.att) /\ UNCHANGED <<old, result>>
             /\ IF run.st = "running" /\ run.att = lease.att THEN Downgrade
                ELSE ReleasedAnyway /\ UNCHANGED run
    <3>1. NativeStep BY <2>3, KillIsNative DEF CleanUp
    <3>2. RunStep \/ RunKept BY <2>3, <1>s, DowngradeSteps DEF RunKept
    <3> QED BY <2>3, <3>1, <3>2
  <2> QED BY <1>1, <2>1, <2>2, <2>3 DEF StaleConfirmed
<1>2. CASE StaleReserved
  BY <1>2, <1>s, StillNative, RequeueSteps DEF StaleReserved, RunKept
<1>3. CASE StaleUnconfirmed
  BY <1>3, <1>s, StillNative, RequeueSteps DEF StaleUnconfirmed
<1> QED BY <1>1, <1>2, <1>3 DEF StaleLease

LEMMA StartupStep == ASSUME RsInv, Startup PROVE RsInv' /\ SettledStays
<1> USE DEF native, durable
<1>1. CASE Boot
  BY <1>1, StillNative, RepairSteps, ProcKept, QuietStep DEF Boot
<1>2. CASE RecoverLeases
  <2>1. proc' = proc /\ (StaleLease \/ (RunKept /\ old' = old /\ UNCHANGED <<alive, marker>>))
    BY <1>2 DEF RecoverLeases, RunKept
  <2> QED BY <2>1, StaleSteps, StillNative, ProcKept, QuietStep
<1>3. CASE ReconcileRow
  <2>1. /\ proc' = proc
        /\ \/ run.st \in Open /\ Collect
           \/ RunKept /\ old' = old /\ UNCHANGED <<alive, marker>>
    <3>1. proc' = proc BY <1>3 DEF ReconcileRow
    <3>2. CASE run.st \in Open
      <4>1. \/ Collect
            \/ UNCHANGED <<adopt, run, lease, result, old>> /\ UNCHANGED <<alive, marker, record, box>>
        BY <1>3, <3>2 DEF ReconcileRow
      <4> QED BY <3>1, <3>2, <4>1 DEF RunKept
    <3>3. CASE run.st \notin Open BY <1>3, <3>1, <3>3 DEF ReconcileRow, RunKept
    <3> QED BY <3>2, <3>3
  <2>2. run.st \in Open => run.st \notin Settled BY DEF Open, Settled
  <2> QED BY <2>1, <2>2, CollectSteps, StillNative, ProcKept, QuietStep
<1>4. CASE ProbeRow
  <2>1. old' = old /\ NativeStep BY <1>4, StillNative DEF ProbeRow
  <2>2. CASE run.st \notin Open
    BY <1>4, <2>1, <2>2, ProcKept, QuietStep DEF ProbeRow, RunKept
  <2>3. CASE run.st \in Open /\ Verified
    <3>1. RunKept /\ (proc' = proc \/ proc' = [pc |-> "monitor", att |-> run.att, res |-> "none"])
      BY <1>4, <2>3 DEF ProbeRow, RunKept
    <3>2. run \in RunRow BY DEF RsInv, CoreTypes
    <3>3. proc' = [pc |-> "monitor", att |-> run.att, res |-> "none"] =>
            proc' \in Thread /\ OutcomeKnown'
      BY <3>2 DEF RunRow, Thread, OutcomeKnown
    <3> QED BY <3>1, <3>3, <2>1, ProcKept, QuietStep
  <2>4. CASE run.st \in Open /\ ~Verified
    <3>1. Terminal("interrupted", 0) /\ proc' = proc BY <1>4, <2>4 DEF ProbeRow
    <3>2. "interrupted" \in Settled /\ run.st \notin Settled BY <2>4 DEF Open, Settled
    <3>3. RunStep BY <3>1, <3>2, TerminalSteps
    <3> QED BY <3>1, <3>3, <2>1, ProcKept, QuietStep
  <2> QED BY <2>2, <2>3, <2>4
<1> QED BY <1>1, <1>2, <1>3, <1>4 DEF Startup

-----------------------------------------------------------------------------
(* Everything else, and all of it.                                           *)

LEMMA GenerationStep ==
    ASSUME RsInv, NEW a \in Attempts, GenerationAnswers(a) \/ GenerationExits(a) \/ Revoke(a)
    PROVE  RsInv' /\ SettledStays
<1> USE DEF durable, native, memory
<1>t. CoreTypes BY DEF RsInv
<1>1. CASE GenerationAnswers(a)
  <2>1. old' = old /\ RunKept /\ proc' = proc BY <1>1 DEF GenerationAnswers, RunKept
  <2>2. NativeStep BY <1>1, <1>t DEF GenerationAnswers, NativeStep, CoreTypes, Evidence
  <2> QED BY <2>1, <2>2, ProcKept, QuietStep
<1>2. CASE GenerationExits(a)
  <2>1. old' = old /\ RunKept /\ proc' = proc BY <1>2 DEF GenerationExits, RunKept
  <2>2. NativeStep BY <1>2, <1>t DEF GenerationExits, NativeStep, CoreTypes, Evidence
  <2> QED BY <2>1, <2>2, ProcKept, QuietStep
<1>3. CASE Revoke(a)
  BY <1>3, StillNative, ProcKept, QuietStep DEF Revoke, RunKept
<1> QED BY <1>1, <1>2, <1>3

LEMMA EnvironmentStep ==
    ASSUME RsInv,
           ContainerVanishes \/ BeginShutdown \/ Crash \/ LeaseExpires \/ HeartbeatStale
               \/ RepairInvalid \/ Heal
    PROVE  RsInv' /\ SettledStays
<1> USE DEF durable, native, memory
<1>1. CASE ContainerVanishes
  <2>1. old' = old /\ RunKept /\ proc' = proc BY <1>1 DEF ContainerVanishes, RunKept
  <2>2. NativeStep BY <1>1 DEF ContainerVanishes, NativeStep, RsInv, CoreTypes
  <2> QED BY <2>1, <2>2, ProcKept, QuietStep
<1>2. CASE BeginShutdown
  BY <1>2, StillNative, ProcKept, QuietStep DEF BeginShutdown, RunKept
<1>3. CASE Crash
  BY <1>3, StillNative, ProcIdle, QuietStep DEF Crash, RunKept
<1>4. CASE LeaseExpires
  BY <1>4, StillNative, ProcKept, QuietStep DEF LeaseExpires, RunKept
<1>5. CASE HeartbeatStale
  BY <1>5, StaleSteps, ProcKept, QuietStep DEF HeartbeatStale
<1>6. CASE RepairInvalid
  BY <1>6, StillNative, RepairSteps, ProcKept, QuietStep DEF RepairInvalid
<1>7. CASE Heal
  <2>1. run.st \notin Settled /\ Collect /\ proc' = proc BY <1>7 DEF Heal, Open, Settled
  <2> QED BY <2>1, CollectSteps, ProcKept, QuietStep
<1> QED BY <1>1, <1>2, <1>3, <1>4, <1>5, <1>6, <1>7

LEMMA InvStep == RsInv /\ [RsNext]_rsVars => RsInv' /\ [SettledStays]_rsVars
<1> SUFFICES ASSUME RsInv, [RsNext]_rsVars PROVE RsInv' /\ [SettledStays]_rsVars OBVIOUS
<1>1. CASE RsNext
  BY <1>1, ProcessorStep, MonitorStep, ShutdownStep, StartupStep, GenerationStep, EnvironmentStep
     DEF RsNext
<1>2. CASE UNCHANGED rsVars
  <2>1. RunKept /\ old' = old /\ proc' = proc /\ UNCHANGED <<alive, marker>>
    BY <1>2 DEF rsVars, RunKept
  <2> QED BY <1>2, <2>1, StillNative, ProcKept, QuietStep
<1> QED BY <1>1, <1>2

(* The inductive invariant, for any number of attempts, restarts and faults. *)
THEOREM RestartCorrect == RsSpec => []RsInv
<1>1. RsInit => RsInv BY InitInv
<1>2. RsInv /\ [RsNext]_rsVars => RsInv' BY InvStep
<1> QED BY <1>1, <1>2, PTL DEF RsSpec

(* Two generations never work beside each other: StartSession stops whatever an earlier
   incarnation of the service left behind before it starts its own.          *)
THEOREM NeverTwoGenerations == RsSpec => []OneGeneration
<1>1. RsInv => OneGeneration
  <2> SUFFICES ASSUME RsInv PROVE Cardinality(alive) <= 1 BY DEF OneGeneration
  <2>1. CASE alive = {}
    <3>1. Cardinality(alive) = 0 BY <2>1, FS_EmptySet
    <3> QED BY <3>1
  <2>2. CASE alive # {}
    <3>1. PICK a : a \in alive BY <2>2
    <3>2. alive = {a} BY <3>1 DEF RsInv, OneAlive
    <3>3. Cardinality(alive) = 1 BY <3>2, FS_Singleton
    <3> QED BY <3>3
  <2> QED BY <2>1, <2>2
<1> QED BY <1>1, RestartCorrect, PTL

(* A run that names an attempt is settled by that attempt, whose evidence was not there when it
   was admitted (_latest_completed_run_payload).                             *)
THEOREM ResultsAreFresh == RsSpec => []ResultIsFresh
<1>1. RsInv => ResultIsFresh
  BY DEF RsInv, ResultIsFresh, ResultIsCurrent, ActiveIsNew
<1> QED BY <1>1, RestartCorrect, PTL

(* A settled run is never requeued, restarted or settled again by a shutdown, a startup, a
   monitor or a read of the worker.                                          *)
THEOREM SettledRunsStay == RsSpec => [][SettledStays]_rsVars
<1>1. RsInv /\ [RsNext]_rsVars => [SettledStays]_rsVars BY InvStep
<1> QED BY <1>1, RestartCorrect, PTL DEF RsSpec
=============================================================================
