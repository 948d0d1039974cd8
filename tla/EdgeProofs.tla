------------------------------ MODULE EdgeProofs ------------------------------
(* Proofs about the two edges of a run.  Schedules: a settled schedule stays settled and never
   gets a run, whatever definitions, threads and crashes there are; with one thread, a run that
   was never claimed is claimed only when it is due.  CleanRoom: the authority of a run is only
   in the container that its grant names, whatever calls create, replace, use and lose
   containers and images.                                                    *)
EXTENDS Schedules, CleanRoom, TLAPS

\* The types, one variable at a time.

\* A thread that is about something knows what; a thread that plans does so up to a time
\* that has come.
ThreadKnows(t) ==
    /\ t.pc # "idle" => t.s \in Schedules
    /\ t.pc \in {"plan", "decided"} => t.s \in Occurrences /\ t.s.at <= t.to

ThreadsTyped == thread \in [Threads -> ThreadRow] /\ \A p \in Threads : ThreadKnows(thread[p])
DefsTyped == defs \in [Definitions -> DefRow] /\ \A d \in Definitions : defs[d].st # "none" => defs[d].next # 0
EditTyped ==
    /\ edit \in [of : Definitions \cup {"none"}, next : 0 .. MaxTime + 1, active : BOOLEAN]
    /\ edit.of # "none" => edit.next # 0
RowsTyped == row \in [Schedules -> [st : RowStates, linked : BOOLEAN]]
OccTyped == occ \in [Schedules -> [st : OccStates, lease : BOOLEAN]]
RunsTyped == run \in [Schedules -> RunStates]
OwedTyped == owed \subseteq Outcomes
RestTyped ==
    /\ now \in 0 .. MaxTime /\ enabled \in BOOLEAN /\ workspace \in {"open", "closing", "closed"}
    /\ events \in 0 .. MaxEvents

SchedTypes ==
    /\ ThreadsTyped /\ DefsTyped /\ EditTyped /\ RowsTyped /\ OccTyped /\ RunsTyped /\ OwedTyped
    /\ RestTyped

LEMMA TypesImply == SchedTypes => SchedTypeOK
BY DEF SchedTypes, SchedTypeOK, ThreadsTyped, DefsTyped, EditTyped, RowsTyped, OccTyped, RunsTyped,
       OwedTyped, RestTyped

LEMMA InitTypes == SchedInit => SchedTypes
<1> SUFFICES ASSUME SchedInit PROVE SchedTypes
  OBVIOUS
<1>1. ThreadsTyped
  BY ScheduleAssumption DEF SchedInit, ThreadsTyped, ThreadKnows, ThreadRow, Idle, Decisions
<1>2. DefsTyped /\ EditTyped
  BY ScheduleAssumption DEF SchedInit, DefsTyped, EditTyped, DefRow, NoEdit
<1>3. RowsTyped /\ OccTyped /\ RunsTyped /\ OwedTyped
  BY DEF SchedInit, OwedTyped, RowsTyped, OccTyped, RunsTyped, RowStates, OccStates, RunStates
<1>4. RestTyped
  BY ScheduleAssumption DEF SchedInit, RestTyped
<1>5. QED BY <1>1, <1>2, <1>3, <1>4 DEF SchedTypes

\* What the runs and their outcomes leave alone.
LEMMA RunFrame == ASSUME RunStep PROVE UNCHANGED <<now, defs, enabled, thread, edit>>
BY DEF RunStep, ClaimRun, InvokeRun, Requeue, Expire, LimitRun, Wait, Resume, EndRun, Tell, StopWork,
       EndWorker, CancelWork, CancelPending

LEMMA ThreadSet ==
    ASSUME ThreadsTyped, NEW p \in Threads, NEW t \in ThreadRow, ThreadKnows(t),
           thread' = [thread EXCEPT ![p] = t]
    PROVE  ThreadsTyped'
BY DEF ThreadsTyped

LEMMA IdleRow == Idle \in ThreadRow /\ ThreadKnows(Idle)
BY ScheduleAssumption DEF Idle, ThreadRow, ThreadKnows, Decisions

LEMMA PlanRow ==
    ASSUME NEW s \in Occurrences, NEW to \in 0 .. MaxTime, NEW exp \in 0 .. MaxTime + 1, s.at <= to
    PROVE  /\ [Idle EXCEPT !.pc = "plan", !.to = to, !.exp = exp, !.s = s] \in ThreadRow
           /\ ThreadKnows([Idle EXCEPT !.pc = "plan", !.to = to, !.exp = exp, !.s = s])
<1>1. s \in Schedules
  BY DEF Schedules
<1>2. [Idle EXCEPT !.pc = "plan", !.to = to, !.exp = exp, !.s = s] \in ThreadRow
  BY <1>1, IdleRow DEF ThreadRow
<1>3. QED BY <1>1, <1>2, IdleRow DEF ThreadKnows, ThreadRow

LEMMA SleepTyped == ASSUME ThreadsTyped, NEW p \in Threads, Sleep(p) PROVE ThreadsTyped'
BY ThreadSet, IdleRow DEF Sleep

\* A thread that goes on with the schedule it is about.
LEMMA GoesOn ==
    ASSUME ThreadsTyped, NEW p \in Threads, thread[p].pc # "idle",
           NEW pc \in {"defer", "claim", "claimed", "checked", "assigned"},
           thread' = [thread EXCEPT ![p].pc = pc]
    PROVE  ThreadsTyped'
<1> DEFINE t == [thread[p] EXCEPT !.pc = pc]
<1>1. t \in ThreadRow /\ ThreadKnows(t)
  BY DEF ThreadsTyped, ThreadRow, ThreadKnows
<1>2. thread' = [thread EXCEPT ![p] = t]
  BY DEF ThreadsTyped
<1>3. QED BY <1>1, <1>2, ThreadSet

LEMMA ThreadsStep == ASSUME SchedTypes, SchedNext PROVE ThreadsTyped'
<1> USE DEF SchedTypes
<1>1. ASSUME NEW p \in Threads, NEW d \in Definitions, Plan(p, d) PROVE ThreadsTyped'
  <2> DEFINE first == IF Policy = "bounded" /\ defs[d].next + Window <= now
                      THEN now + 1 - Window
                      ELSE IF Policy = "bounded" THEN defs[d].next ELSE now
             s == [kind |-> "occurrence", of |-> d, at |-> first]
             t == [Idle EXCEPT !.pc = "plan", !.to = now, !.exp = defs[d].next, !.s = s]
  <2>1. /\ defs[d].next \in 1 .. MaxTime + 1 /\ defs[d].next <= now /\ now \in 0 .. MaxTime
        /\ Window \in Nat \ {0} /\ MaxTime \in Nat
    BY <1>1, ScheduleAssumption DEF Plan, DefsTyped, DefRow, RestTyped
  <2>2. first \in 1 .. MaxTime /\ first <= now
    BY <2>1
  <2>3. s \in Occurrences
    BY <2>2 DEF Occurrences, Times
  <2>5. t \in ThreadRow /\ ThreadKnows(t)
    <3>1. defs[d].next \in 0 .. MaxTime + 1
      BY <2>1
    <3> HIDE DEF first
    <3>2. s.at <= now
      BY <2>2
    <3> HIDE DEF s
    <3>3. QED BY <2>1, <2>3, <3>1, <3>2, PlanRow
  <2>6. QED BY <1>1, <2>5, ThreadSet DEF Plan
<1>2. ASSUME NEW p \in Threads, Decide(p) PROVE ThreadsTyped'
  <2>1. PICK decision \in Decisions :
          thread' = [thread EXCEPT ![p].pc = "decided", ![p].decision = decision]
    BY <1>2 DEF Decide
  <2> DEFINE t == [thread[p] EXCEPT !.pc = "decided", !.decision = decision]
  <2>2. t \in ThreadRow /\ ThreadKnows(t)
    BY <1>2 DEF Decide, ThreadsTyped, ThreadRow, ThreadKnows
  <2>3. thread' = [thread EXCEPT ![p] = t]
    BY <2>1 DEF ThreadsTyped
  <2>4. QED BY <2>2, <2>3, ThreadSet
<1>3. ASSUME NEW p \in Threads, Materialize(p) PROVE ThreadsTyped'
  <2>1. CASE thread[p].decision = "action_required" \/ thread[p].s.at = thread[p].to
    BY <1>3, <2>1, ThreadSet, IdleRow DEF Materialize
  <2>2. CASE ~(thread[p].decision = "action_required" \/ thread[p].s.at = thread[p].to)
    <3> DEFINE me == thread[p]
               t == [me EXCEPT !.pc = "plan", !.s.at = me.s.at + 1, !.exp = me.s.at + 1,
                               !.decision = "none"]
    <3>1. thread' = [thread EXCEPT ![p] = t]
      BY <1>3, <2>2 DEF Materialize, Following
    <3>6. me \in ThreadRow /\ me.s \in Occurrences /\ me.s.at <= me.to /\ me.s.at # me.to
      BY <1>3, <2>2 DEF Materialize, ThreadsTyped, ThreadKnows
    <3>2. /\ me \in ThreadRow /\ me.s \in Occurrences /\ me.s.at < me.to
          /\ MaxTime \in Nat
      BY <3>6, ScheduleAssumption DEF ThreadRow, Occurrences, Times
    <3>3. [me.s EXCEPT !.at = me.s.at + 1] \in Occurrences
      BY <3>2 DEF ThreadRow, Occurrences, Times
    <3>4. t \in ThreadRow /\ ThreadKnows(t)
      <4>1. me.s.at + 1 <= me.to /\ me.s.at + 1 \in 0 .. MaxTime + 1
        BY <3>2 DEF ThreadRow, Occurrences, Times
      <4>3. [me.s EXCEPT !.at = me.s.at + 1].at = me.s.at + 1
        BY <3>2 DEF Occurrences
      <4>4. me.to \in 0 .. MaxTime
        BY <3>2 DEF ThreadRow
      <4>5. [me.s EXCEPT !.at = me.s.at + 1] \in Schedules
        BY <3>3 DEF Schedules
      <4>6. t \in ThreadRow
        BY <3>2, <4>1, <4>5 DEF ThreadRow, Decisions
      <4>7. t.pc = "plan" /\ t.s = [me.s EXCEPT !.at = me.s.at + 1] /\ t.to = me.to
        BY <3>2 DEF ThreadRow
      <4>8. QED BY <3>3, <4>1, <4>3, <4>5, <4>6, <4>7 DEF ThreadKnows
    <3>5. QED BY <3>1, <3>4, ThreadSet
  <2>3. QED BY <2>1, <2>2
<1>4. ASSUME NEW p \in Threads, NEW s \in Schedules, List(p, s) PROVE ThreadsTyped'
  <2> DEFINE t == [Idle EXCEPT !.pc = "listed", !.s = s]
  <2>1. t \in ThreadRow /\ ThreadKnows(t)
    BY IdleRow DEF ThreadRow, ThreadKnows
  <2>2. QED BY <1>4, <2>1, ThreadSet DEF List
<1>5. ASSUME NEW p \in Threads,
             Weigh(p) \/ Defer(p) \/ ClaimSchedule(p) \/ Revalidate(p) \/ AssignRun(p) \/ Observe(p)
      PROVE  ThreadsTyped'
  <2>1. CASE Weigh(p)
    BY <2>1, GoesOn DEF Weigh
  <2>2. CASE Defer(p) \/ Observe(p)
    BY <2>2, SleepTyped DEF Defer, Observe
  <2>3. CASE ClaimSchedule(p)
    BY <2>3, GoesOn, SleepTyped DEF ClaimSchedule
  <2>4. CASE Revalidate(p)
    BY <2>4, GoesOn, SleepTyped DEF Revalidate
  <2>5. CASE AssignRun(p)
    BY <2>5, GoesOn, SleepTyped DEF AssignRun
  <2>6. QED BY <1>5, <2>1, <2>2, <2>3, <2>4, <2>5
<1>6. CASE Crash
  BY <1>6, IdleRow DEF Crash, ThreadsTyped
<1>7. CASE UNCHANGED thread
  BY <1>7 DEF ThreadsTyped
<1>8. QED
  BY <1>1, <1>2, <1>3, <1>4, <1>5, <1>6, <1>7, RunFrame
  DEF SchedNext, OwnerStep, SchedulerStep, Tick, CreateDefinition, Deactivate, BeginUpdate,
      FinishUpdate, Submit, Enable, Disable, CloseWorker, Recover

\* A step leaves the other definitions alone, or stops every active one.
LEMMA DefSet ==
    ASSUME DefsTyped, NEW d, NEW new, d \in Definitions => new \in DefRow /\ (new.st # "none" => new.next # 0),
           defs' = [defs EXCEPT ![d] = new]
    PROVE  DefsTyped'
BY DEF DefsTyped

LEMMA StopTyped == ASSUME DefsTyped, StopDefinitions PROVE DefsTyped'
<1>1. ASSUME NEW d \in Definitions
      PROVE  defs'[d] \in DefRow /\ (defs'[d].st # "none" => defs'[d].next # 0)
  <2>1. defs[d] \in DefRow /\ (defs[d].st # "none" => defs[d].next # 0)
    BY DEF DefsTyped
  <2>2. defs'[d] = IF defs[d].st = "active" THEN [defs[d] EXCEPT !.st = "inactive"] ELSE defs[d]
    BY DEF StopDefinitions
  <2>3. QED BY <2>1, <2>2 DEF DefRow
<1>2. defs' = [d \in Definitions |-> defs'[d]]
  BY DEF StopDefinitions
<1>3. QED BY <1>1, <1>2 DEF DefsTyped

LEMMA DefsStep == ASSUME SchedTypes, SchedNext PROVE DefsTyped'
<1> USE DEF SchedTypes
<1>1. ASSUME NEW d \in Definitions, CreateDefinition(d) PROVE DefsTyped'
  <2> DEFINE new == [st |-> "active", next |-> now + 1, retired |-> FALSE]
  <2>1. new \in DefRow /\ new.next # 0
    BY ScheduleAssumption DEF RestTyped, DefRow
  <2>2. QED BY <1>1, <2>1, DefSet DEF CreateDefinition
<1>2. ASSUME NEW d \in Definitions, NEW retire \in BOOLEAN, Deactivate(d, retire) PROVE DefsTyped'
  <2> DEFINE new == [defs[d] EXCEPT !.st = "inactive", !.retired = defs[d].retired \/ retire]
  <2>1. defs[d] \in DefRow /\ defs[d].next # 0
    BY <1>2 DEF DefsTyped, Deactivate
  <2>2. new \in DefRow /\ new.next # 0
    BY <2>1 DEF DefRow
  <2>3. defs' = [defs EXCEPT ![d] = new]
    BY <1>2 DEF Deactivate, DefsTyped
  <2>4. QED BY <2>2, <2>3, DefSet
<1>3. CASE FinishUpdate
  <2> DEFINE d == edit.of
  <2>1. CASE UNCHANGED defs
    BY <2>1 DEF DefsTyped
  <2>2. CASE defs' = [defs EXCEPT ![d].next = edit.next,
                                  ![d].st = IF edit.active THEN "active" ELSE "inactive"]
    <3> DEFINE new == [defs[d] EXCEPT !.next = edit.next,
                                      !.st = IF edit.active THEN "active" ELSE "inactive"]
    <3>1. d \in Definitions /\ edit.next \in 0 .. MaxTime + 1 /\ edit.next # 0
      BY <1>3 DEF FinishUpdate, EditTyped
    <3>2. defs[d] \in DefRow
      BY <3>1 DEF DefsTyped
    <3>3. new \in DefRow /\ new.next = edit.next
      BY <3>1, <3>2 DEF DefRow
    <3>4. defs' = [defs EXCEPT ![d] = new]
      BY <2>2, <3>1 DEF DefsTyped
    <3>5. QED BY <3>1, <3>3, <3>4, DefSet
  <2>3. QED BY <1>3, <2>1, <2>2 DEF FinishUpdate
<1>4. CASE Disable \/ CloseWorker
  BY <1>4, StopTyped DEF Disable, CloseWorker
<1>5. ASSUME NEW p \in Threads, Materialize(p) PROVE DefsTyped'
  <2> DEFINE me == thread[p]
             d == me.s.of
             following == me.s.at + 1
  <2>1. CASE UNCHANGED defs
    BY <2>1 DEF DefsTyped
  <2>2. CASE defs' = [defs EXCEPT ![d].next = following,
                         ![d].st = IF me.decision = "action_required" THEN "inactive" ELSE @]
    <3> DEFINE new == [defs[d] EXCEPT !.next = following,
                         !.st = IF me.decision = "action_required" THEN "inactive" ELSE defs[d].st]
    <3>1. me.s \in Occurrences
      BY <1>5 DEF Materialize, ThreadsTyped, ThreadKnows
    <3>2. d \in Definitions /\ following \in 0 .. MaxTime + 1 /\ following # 0
      BY <3>1, ScheduleAssumption DEF Occurrences, Times
    <3>3. defs[d] \in DefRow
      BY <3>2 DEF DefsTyped
    <3>4. defs' = [defs EXCEPT ![d] = new]
      BY <2>2, <3>2 DEF DefsTyped
    <3> HIDE DEF d, following
    <3>5. new \in DefRow /\ new.next = following
      BY <3>2, <3>3 DEF DefRow
    <3> HIDE DEF new
    <3>6. QED BY <3>2, <3>4, <3>5, DefSet
  <2>3. QED BY <1>5, <2>1, <2>2 DEF Materialize, Following
<1>6. CASE UNCHANGED defs
  BY <1>6 DEF DefsTyped
<1>7. QED
  BY <1>1, <1>2, <1>3, <1>4, <1>5, <1>6, RunFrame
  DEF SchedNext, OwnerStep, SchedulerStep, Tick, BeginUpdate, Submit, Enable, Plan, Decide,
      Recover, List, Weigh, Defer, ClaimSchedule, Revalidate, AssignRun, Observe, Crash

LEMMA EditStep == ASSUME SchedTypes, SchedNext PROVE EditTyped'
<1> USE DEF SchedTypes
<1>1. ASSUME NEW d \in Definitions, BeginUpdate(d) PROVE EditTyped'
  <2>1. defs[d].next \in 0 .. MaxTime + 1 /\ defs[d].next # 0
    BY <1>1 DEF BeginUpdate, DefsTyped, DefRow
  <2>2. now < MaxTime => now + 1 \in 0 .. MaxTime + 1 /\ now + 1 # 0
    BY ScheduleAssumption DEF RestTyped
  <2>3. QED BY <1>1, <2>1, <2>2 DEF BeginUpdate, EditTyped
<1>2. CASE FinishUpdate \/ Crash
  <2>1. /\ NoEdit \in [of : Definitions \cup {"none"}, next : 0 .. MaxTime + 1, active : BOOLEAN]
        /\ NoEdit.of = "none"
    BY ScheduleAssumption DEF NoEdit
  <2>2. edit' = NoEdit
    BY <1>2 DEF FinishUpdate, Crash
  <2>3. QED BY <2>1, <2>2 DEF EditTyped
<1>3. CASE UNCHANGED edit
  BY <1>3 DEF EditTyped
<1>4. QED
  BY <1>1, <1>2, <1>3, RunFrame
  DEF SchedNext, OwnerStep, SchedulerStep, Tick, CreateDefinition, Deactivate, Submit, Enable, Disable,
      CloseWorker, Plan, Decide, Materialize, Recover, List, Weigh, Defer, ClaimSchedule, Revalidate,
      AssignRun, Observe

-----------------------------------------------------------------------------
\* What a step does to one schedule.

\* The schedules of the threads are schedules.
LEMMA OfThread ==
    ASSUME ThreadsTyped, NEW p \in Threads, thread[p].pc # "idle"
    PROVE  thread[p].s \in Schedules
BY DEF ThreadsTyped, ThreadKnows

LEMMA Kinds ==
    /\ RowEnd \subseteq RowStates /\ OccEnd \subseteq OccStates /\ RowEnd \subseteq RunStates
    /\ RowEnd \subseteq OccEnd
    /\ "pending" \notin OccEnd \cup RowEnd /\ "claimed" \notin OccEnd
    /\ "queued" \notin OccEnd \cup RowEnd /\ "retryable" \notin OccEnd
    /\ "running" \notin RowEnd /\ "none" \notin RowEnd \cup OccEnd
BY DEF RowEnd, OccEnd, RowStates, OccStates, RunStates

LEMMA OccSet ==
    ASSUME OccTyped, NEW s, NEW o \in [st : OccStates, lease : BOOLEAN], occ' = [occ EXCEPT ![s] = o]
    PROVE  OccTyped'
BY DEF OccTyped

LEMMA OccMoved ==
    ASSUME OccTyped, NEW s \in Schedules, NEW st \in OccStates, NEW lease \in BOOLEAN, MoveOcc(s, st, lease)
    PROVE  OccTyped'
BY DEF OccTyped, MoveOcc

LEMMA RowSet ==
    ASSUME RowsTyped, NEW s, NEW r \in [st : RowStates, linked : BOOLEAN], row' = [row EXCEPT ![s] = r]
    PROVE  RowsTyped'
BY DEF RowsTyped

LEMMA RowStateSet ==
    ASSUME RowsTyped, NEW s \in Schedules, NEW st \in RowStates, row' = [row EXCEPT ![s].st = st]
    PROVE  RowsTyped'
BY DEF RowsTyped

LEMMA Finalized ==
    ASSUME RowsTyped, OccTyped, NEW s \in Schedules, NEW st \in RowEnd \cup {"needs_input"},
           FinalizeSchedule(s, st) \/ FinalizeForRun(s, st)
    PROVE  RowsTyped' /\ OccTyped'
<1>1. st \in RowStates /\ st \in OccStates
  BY DEF RowEnd, RowStates, OccEnd, OccStates
<1>2. CASE FinalizeSchedule(s, st)
  BY <1>1, <1>2, OccMoved DEF FinalizeSchedule, RowsTyped
<1>3. CASE FinalizeForRun(s, st)
  <2>1. RowsTyped'
    BY <1>1, <1>3 DEF FinalizeForRun, RowsTyped
  <2>2. OccTyped'
    BY <1>1, <1>3, OccMoved DEF FinalizeForRun, OccTyped
  <2>3. QED BY <2>1, <2>2
<1>4. QED BY <1>2, <1>3

\* The steps that write the row, the occurrence or the run of a schedule.
RowSteps ==
    \/ \E s \in Manuals \cup OneShots : Submit(s)
    \/ Disable \/ CloseWorker
    \/ \E p \in Threads :
        \/ Materialize(p) \/ Defer(p) \/ ClaimSchedule(p) \/ Revalidate(p) \/ AssignRun(p) \/ Observe(p)
        \/ \E s \in Schedules : Recover(p, s)
    \/ RunStep

LEMMA OtherSteps == ASSUME SchedNext PROVE RowSteps \/ UNCHANGED <<row, occ, run>>
BY DEF SchedNext, OwnerStep, SchedulerStep, RowSteps, Tick, CreateDefinition, Deactivate, BeginUpdate,
       FinishUpdate, Enable, Plan, Decide, List, Weigh, Crash

LEMMA RunSet ==
    ASSUME RunsTyped, NEW s, NEW st \in RunStates, SetRun(s, st)
    PROVE  RunsTyped'
BY DEF RunsTyped, SetRun

LEMMA RunTypes == ASSUME SchedTypes, RunStep PROVE RowsTyped' /\ OccTyped' /\ RunsTyped'
<1> USE DEF SchedTypes
<1>0. /\ Queued \subseteq RunStates /\ Holding \subseteq RunStates /\ RowEnd \subseteq RunStates
      /\ \A st \in RowStates : StoppedRow(st) \in RowStates
  BY DEF Queued, Holding, RowEnd, RunStates, RowStates, StoppedRow
<1>1. ASSUME NEW s \in Schedules,
             \/ ClaimRun(s) \/ InvokeRun(s) \/ Requeue(s) \/ Expire(s)
             \/ \E st \in {"paused", "needs_input"} : Wait(s, st)
             \/ \E st \in {"running", "again"} : Resume(s, st)
      PROVE  RowsTyped' /\ OccTyped' /\ RunsTyped'
  <2>1. \E st \in RunStates : SetRun(s, st)
    BY <1>1 DEF ClaimRun, InvokeRun, Requeue, Expire, Wait, Resume, RunStates, Queued, Holding, RowEnd
  <2>2. UNCHANGED <<row, occ>>
    BY <1>1 DEF ClaimRun, InvokeRun, Requeue, Expire, Wait, Resume
  <2>3. QED BY <2>1, <2>2, RunSet DEF RowsTyped, OccTyped
<1>2. ASSUME NEW s \in Schedules, NEW st \in RowEnd, EndRun(s, st)
      PROVE  RowsTyped' /\ OccTyped' /\ RunsTyped'
  BY <1>0, <1>2, RunSet, Finalized DEF EndRun
<1>3. ASSUME NEW o \in owed, Tell(o) PROVE RowsTyped' /\ OccTyped' /\ RunsTyped'
  <2>1. o[1] \in Schedules /\ o[2] \in RowEnd \cup {"needs_input"}
    BY DEF OwedTyped, Outcomes, RowEnd
  <2>2. QED BY <1>3, <2>1, Finalized DEF Tell, RunsTyped
<1>4. ASSUME NEW s \in Schedules, LimitRun(s) PROVE RowsTyped' /\ OccTyped' /\ RunsTyped'
  <2>1. RowsTyped'
    BY <1>0, <1>4 DEF LimitRun, RowsTyped
  <2>2. "cancelled" \in RunStates
    BY DEF RunStates, RowEnd
  <2>3. QED BY <1>4, <2>1, <2>2, RunSet DEF LimitRun, OccTyped
<1>5. CASE StopWork \/ EndWorker
  <2>1. RowsTyped'
    BY <1>0, <1>5 DEF StopWork, EndWorker, CancelWork, RowsTyped
  <2>2. RunsTyped'
    BY <1>5 DEF StopWork, EndWorker, CancelWork, RunsTyped, RunStates, RowEnd
  <2>3. QED BY <1>5, <2>1, <2>2 DEF StopWork, EndWorker, CancelWork, OccTyped
<1>6. CASE CancelPending
  <2>1. RowsTyped'
    BY <1>6 DEF CancelPending, RowsTyped, RowStates, RowEnd
  <2>2. RunsTyped'
    BY <1>6 DEF CancelPending, RunsTyped, RunStates, RowEnd
  <2>3. QED BY <1>6, <2>1, <2>2 DEF CancelPending, OccTyped
<1>7. QED BY <1>1, <1>2, <1>3, <1>4, <1>5, <1>6 DEF RunStep

LEMMA OwedStep == ASSUME SchedTypes, SchedNext PROVE OwedTyped'
<1> USE DEF SchedTypes
<1>1. CASE RunStep
  BY <1>1 DEF RunStep, ClaimRun, InvokeRun, Requeue, Expire, LimitRun, Wait, Resume, EndRun, Tell,
              StopWork, EndWorker, CancelWork, CancelPending, OwedTyped, Outcomes
<1>2. CASE Crash
  BY <1>2 DEF Crash, OwedTyped
<1>3. CASE UNCHANGED owed
  BY <1>3 DEF OwedTyped
<1>4. QED
  BY <1>1, <1>2, <1>3
  DEF SchedNext, OwnerStep, SchedulerStep, Tick, CreateDefinition, Deactivate, BeginUpdate,
      FinishUpdate, Submit, Enable, Disable, CloseWorker, Plan, Decide, Materialize, Recover, List,
      Weigh, Defer, ClaimSchedule, Revalidate, AssignRun, Observe

LEMMA LedgerStep == ASSUME SchedTypes, SchedNext PROVE RowsTyped' /\ OccTyped' /\ RunsTyped'
<1> USE DEF SchedTypes
<1>1. ASSUME NEW s \in Manuals \cup OneShots, Submit(s) PROVE RowsTyped' /\ OccTyped' /\ RunsTyped'
  BY <1>1 DEF Submit, RowsTyped, OccTyped, RunsTyped, RowStates, OccStates
<1>2. CASE Disable
  <2>1. RowsTyped'
    BY <1>2 DEF Disable, RowsTyped, RowStates, RowEnd
  <2>2. OccTyped'
    BY <1>2 DEF Disable, OccTyped, OccStates
  <2>3. RunsTyped'
    BY <1>2 DEF Disable, RunsTyped, RunStates, RowEnd
  <2>4. QED BY <2>1, <2>2, <2>3
<1>3. CASE CloseWorker
  <2>1. RowsTyped'
    BY <1>3 DEF CloseWorker, RowsTyped, RowStates, RowEnd
  <2>2. OccTyped'
    BY <1>3 DEF CloseWorker, OccTyped, OccStates, ClosedOccurrence, OccEnd, RowEnd
  <2>3. QED BY <1>3, <2>1, <2>2 DEF CloseWorker, RunsTyped
<1>4. ASSUME NEW p \in Threads, Materialize(p) PROVE RowsTyped' /\ OccTyped' /\ RunsTyped'
  <2>1. thread[p].decision \in OccStates /\ thread[p].s \in Schedules
    BY <1>4, OfThread DEF Materialize, ThreadsTyped, ThreadRow, Decisions, OccStates, OccEnd
  <2> DEFINE s == thread[p].s
             o == thread[p].decision
  <2>2. \/ row' = [row EXCEPT ![s].st = row[s].st] /\ occ' = [occ EXCEPT ![s].st = occ[s].st]
        \/ /\ \E st \in {"pending", "cancelled", "failed"} : row' = [row EXCEPT ![s].st = st]
           /\ occ' = [occ EXCEPT ![s].st = o]
    BY <1>4, <2>1 DEF Materialize, RowsTyped, OccTyped
  <2>3. RowsTyped'
    BY <2>1, <2>2 DEF RowsTyped, RowStates, RowEnd
  <2>4. OccTyped'
    BY <2>1, <2>2 DEF OccTyped
  <2>5. QED BY <1>4, <2>3, <2>4 DEF Materialize, RunsTyped
<1>5. ASSUME NEW p \in Threads, NEW s \in Schedules, Recover(p, s) PROVE RowsTyped' /\ OccTyped' /\ RunsTyped'
  <2>1. Reclaimed(row[s].st) \in RowStates
    BY DEF RowsTyped, Reclaimed, RowStates
  <2>2. RowsTyped'
    BY <1>5, <2>1 DEF Recover, RowsTyped
  <2>3. OccTyped'
    BY <1>5, OccSet DEF Recover, OccStates
  <2>4. QED BY <1>5, <2>2, <2>3 DEF Recover, RunsTyped
<1>6. ASSUME NEW p \in Threads,
             Defer(p) \/ ClaimSchedule(p) \/ Revalidate(p) \/ AssignRun(p) \/ Observe(p)
      PROVE  RowsTyped' /\ OccTyped' /\ RunsTyped'
  <2> DEFINE s == thread[p].s
  <2>1. s \in Schedules
    BY <1>6, OfThread DEF Defer, ClaimSchedule, Revalidate, AssignRun, Observe
  <2> HIDE DEF s
  <2>2. {"failed", "cancelled"} \subseteq RowEnd
    BY DEF RowEnd
  <2>3. {"retryable", "skipped", "claimed", "queued"} \subseteq OccStates
    BY DEF OccStates, OccEnd
  <2>4. CASE Defer(p)
    BY <2>1, <2>3, <2>4, OccMoved DEF Defer, RowsTyped, RunsTyped, s
  <2>5. CASE ClaimSchedule(p)
    <3>1. CASE UNCHANGED <<row, occ>>
      BY <2>5, <3>1 DEF ClaimSchedule, RowsTyped, OccTyped, RunsTyped
    <3>2. CASE row' = [row EXCEPT ![s].st = "cancelled"] /\ MoveOcc(s, "skipped", FALSE)
      BY <2>1, <2>3, <2>5, <3>2, OccMoved, RowStateSet DEF ClaimSchedule, RunsTyped, RowStates, RowEnd
    <3>3. CASE row' = [row EXCEPT ![s].st = "running"] /\ MoveOcc(s, "claimed", TRUE)
      BY <2>1, <2>3, <2>5, <3>3, OccMoved, RowStateSet DEF ClaimSchedule, RunsTyped, RowStates
    <3>4. QED BY <2>5, <3>1, <3>2, <3>3 DEF ClaimSchedule, s
  <2>6. CASE Revalidate(p)
    <3>1. CASE UNCHANGED <<row, occ>>
      BY <2>6, <3>1 DEF Revalidate, RowsTyped, OccTyped, RunsTyped
    <3>2. CASE FinalizeSchedule(s, "failed")
      BY <2>1, <2>2, <2>6, <3>2, Finalized DEF Revalidate, RunsTyped
    <3>3. QED BY <2>6, <3>1, <3>2 DEF Revalidate, s
  <2>7. CASE AssignRun(p)
    <3>1. CASE UNCHANGED <<row, occ, run>>
      BY <3>1 DEF RowsTyped, OccTyped, RunsTyped
    <3>2. CASE (FinalizeSchedule(s, "failed") \/ FinalizeSchedule(s, "cancelled")) /\ UNCHANGED run
      BY <2>1, <2>2, <3>2, Finalized DEF RunsTyped
    <3>3. CASE /\ run' = [run EXCEPT ![s] = IF @ = "none" THEN "queued" ELSE @]
               /\ row' = [row EXCEPT ![s] = Dispatched] /\ MoveOcc(s, "queued", FALSE)
      <4>1. RunsTyped'
        BY <3>3 DEF RunsTyped, RunStates, Queued
      <4>2. Dispatched \in [st : RowStates, linked : BOOLEAN]
        BY DEF Dispatched, RowStates
      <4>3. QED BY <2>1, <2>3, <3>3, <4>1, <4>2, OccMoved, RowSet
    <3>4. QED BY <2>7, <3>1, <3>2, <3>3 DEF AssignRun, s
  <2>8. CASE Observe(p)
    <3>1. CASE UNCHANGED <<row, occ>>
      BY <2>8, <3>1 DEF Observe, RowsTyped, OccTyped, RunsTyped
    <3>2. CASE (\E st \in RowEnd : FinalizeForRun(s, st)) \/ FinalizeSchedule(s, "failed")
      BY <2>1, <2>2, <2>8, <3>2, Finalized DEF Observe, RunsTyped
    <3>3. QED BY <2>2, <2>8, <3>1, <3>2 DEF Observe, s
  <2>9. QED BY <1>6, <2>4, <2>5, <2>6, <2>7, <2>8
<1>7. CASE RunStep
  BY <1>7, RunTypes
<1>9. CASE UNCHANGED <<row, occ, run>>
  BY <1>9 DEF RowsTyped, OccTyped, RunsTyped
<1>10. QED
  BY <1>1, <1>2, <1>3, <1>4, <1>5, <1>6, <1>7, <1>9, OtherSteps DEF RowSteps

LEMMA RestStep == ASSUME SchedTypes, SchedNext PROVE RestTyped'
<1> USE DEF SchedTypes
<1>1. now' \in 0 .. MaxTime
  <2>1. CASE Tick
    BY <2>1, ScheduleAssumption DEF Tick, RestTyped
  <2>2. CASE UNCHANGED now
    BY <2>2 DEF RestTyped
  <2>3. QED
    BY <2>1, <2>2, RunFrame
    DEF SchedNext, OwnerStep, SchedulerStep, CreateDefinition, Deactivate, BeginUpdate, FinishUpdate,
        Submit, Enable, Disable, CloseWorker, Plan, Decide, Materialize, Recover, List, Weigh, Defer,
        ClaimSchedule, Revalidate, AssignRun, Observe, Crash
<1>2. enabled' \in BOOLEAN
  <2>1. CASE UNCHANGED enabled
    BY <2>1 DEF RestTyped
  <2>2. CASE Enable \/ Disable
    BY <2>2 DEF Enable, Disable
  <2>3. QED
    BY <2>1, <2>2, RunFrame
    DEF SchedNext, OwnerStep, SchedulerStep, Tick, CreateDefinition, Deactivate, BeginUpdate,
        FinishUpdate, Submit, CloseWorker, Plan, Decide, Materialize, Recover, List, Weigh, Defer,
        ClaimSchedule, Revalidate, AssignRun, Observe, Crash
<1>3. workspace' \in {"open", "closing", "closed"}
  <2>1. CASE UNCHANGED workspace
    BY <2>1 DEF RestTyped
  <2>2. CASE CloseWorker \/ RunStep
    BY <2>2 DEF RestTyped, CloseWorker, RunStep, ClaimRun, InvokeRun, Requeue, Expire, LimitRun, Wait,
                Resume, EndRun, Tell, StopWork, EndWorker, CancelPending
  <2>3. QED
    BY <2>1, <2>2
    DEF SchedNext, OwnerStep, SchedulerStep, Tick, CreateDefinition, Deactivate, BeginUpdate,
        FinishUpdate, Submit, Enable, Disable, Plan, Decide, Materialize, Recover, List, Weigh, Defer,
        ClaimSchedule, Revalidate, AssignRun, Observe, Crash
<1>4. events' \in 0 .. MaxEvents
  <2>1. CASE Event \/ UNCHANGED events
    BY <2>1, ScheduleAssumption DEF Event, RestTyped
  <2>2. CASE RunStep
    BY <2>1, <2>2
    DEF RunStep, ClaimRun, InvokeRun, Requeue, Expire, LimitRun, Wait, Resume, EndRun, Tell, StopWork,
        EndWorker, CancelPending
  <2>3. QED
    BY <2>1, <2>2
    DEF SchedNext, OwnerStep, SchedulerStep, Tick, CreateDefinition, Deactivate, BeginUpdate,
        FinishUpdate, Submit, Enable, Disable, CloseWorker, Plan, Decide, Materialize, Recover, List,
        Weigh, Defer, ClaimSchedule, Revalidate, AssignRun, Observe, Crash
<1>5. QED BY <1>1, <1>2, <1>3, <1>4 DEF RestTyped

LEMMA TypesStep == ASSUME SchedTypes, [SchedNext]_svars PROVE SchedTypes'
<1>1. CASE SchedNext
  BY <1>1, ThreadsStep, DefsStep, EditStep, LedgerStep, OwedStep, RestStep DEF SchedTypes
<1>2. CASE UNCHANGED svars
  BY <1>2 DEF svars, SchedTypes, ThreadsTyped, DefsTyped, EditTyped, RowsTyped, OccTyped, RunsTyped,
              OwedTyped, RestTyped
<1>3. QED BY <1>1, <1>2

\* Type correctness of the schedules: every row, occurrence, run and thread is what its table
\* allows, whatever the policy and however many threads process due schedules.
THEOREM SchedulesTyped == SchedSpec => []SchedTypeOK
<1>1. SchedSpec => []SchedTypes
  BY InitTypes, TypesStep, PTL DEF SchedSpec
<1>2. QED BY <1>1, TypesImply, PTL

-----------------------------------------------------------------------------
\* Settled schedules

\* A settlement moves the state of one row, if it has not ended.
LEMMA FinalizedRow ==
    ASSUME RowsTyped, NEW s \in Schedules, NEW st,
           FinalizeSchedule(s, st) \/ FinalizeForRun(s, st)
    PROVE  \A q \in Schedules : row[q].st \in RowEnd \/ q # s => row'[q] = row[q]
<1>1. {"queued", "running"} \cap RowEnd = {}
  BY DEF RowEnd
<1>2. CASE FinalizeSchedule(s, st)
  BY <1>2 DEF FinalizeSchedule, RowsTyped
<1>3. CASE FinalizeForRun(s, st)
  BY <1>1, <1>3 DEF FinalizeForRun, RowsTyped
<1>4. QED BY <1>2, <1>3

SettledStays(s) ==
    row[s].st \in RowEnd =>
        /\ row'[s].st = row[s].st \/ (row[s].st = "failed" /\ row'[s].st = "cancelled")
        /\ run[s] = "none" => run'[s] = "none"

\* What a step of the runs may do to a row: an outcome is written to a dispatched row, or
\* the row is cancelled whatever it is.
RowMoved(s) ==
    /\ row'[s].linked = row[s].linked
    /\ \/ row'[s].st = row[s].st
       \/ row'[s].st = "cancelled" /\ row[s].st \notin {"none", "completed", "cancelled"}
       \/ /\ row[s].linked /\ row[s].st \in {"queued", "running"}
          /\ row'[s].st \in RowEnd \cup {"needs_input"}

\* A run is not made by such a step, and does not become new again.
RunMoved(s) == (run'[s] = "none" <=> run[s] = "none") /\ (run'[s] = "queued" => run[s] = "queued")

LEMMA TellsRow ==
    ASSUME RowsTyped, NEW q \in Schedules, NEW st \in RowEnd \cup {"needs_input"}, FinalizeForRun(q, st),
           NEW s \in Schedules
    PROVE  RowMoved(s) /\ (s # q => row'[s] = row[s])
BY DEF FinalizeForRun, RowsTyped, RowMoved

LEMMA RunMoves ==
    ASSUME SchedTypes, RunStep, NEW s \in Schedules
    PROVE  RowMoved(s) /\ RunMoved(s)
<1> USE DEF SchedTypes
<1>0. "none" \notin RowEnd /\ "queued" \notin RowEnd
  BY DEF RowEnd
<1>1. ASSUME NEW q \in Schedules,
             \/ ClaimRun(q) \/ InvokeRun(q) \/ Requeue(q) \/ Expire(q)
             \/ \E st \in {"paused", "needs_input"} : Wait(q, st)
             \/ \E st \in {"running", "again"} : Resume(q, st)
      PROVE  RowMoved(s) /\ RunMoved(s)
  <2>1. run[q] # "none" /\ UNCHANGED row
    BY <1>1 DEF ClaimRun, InvokeRun, Requeue, Expire, Wait, Resume, Queued
  <2>2. \E st : SetRun(q, st) /\ st \notin {"none", "queued"}
    BY <1>1 DEF ClaimRun, InvokeRun, Requeue, Expire, Wait, Resume
  <2>3. QED BY <2>1, <2>2 DEF RowMoved, RunMoved, SetRun, RunsTyped
<1>2. ASSUME NEW q \in Schedules, NEW st \in RowEnd, EndRun(q, st) PROVE RowMoved(s) /\ RunMoved(s)
  <2>1. RowMoved(s)
    BY <1>2, TellsRow DEF EndRun
  <2>2. QED BY <1>0, <1>2, <2>1 DEF EndRun, Ended, RunMoved, SetRun, RunsTyped
<1>3. ASSUME NEW o \in owed, Tell(o) PROVE RowMoved(s) /\ RunMoved(s)
  <2>1. o[1] \in Schedules /\ o[2] \in RowEnd \cup {"needs_input"}
    BY DEF OwedTyped, Outcomes, RowEnd
  <2>2. QED BY <1>3, <2>1, TellsRow DEF Tell, RunMoved
<1>4. ASSUME NEW q \in Schedules, LimitRun(q) PROVE RowMoved(s) /\ RunMoved(s)
  <2>1. RowMoved(s)
    BY <1>4 DEF LimitRun, StoppedRow, RowMoved, RowsTyped
  <2>2. QED BY <1>4, <2>1 DEF LimitRun, RunMoved, SetRun, RunsTyped
<1>5. CASE StopWork \/ EndWorker
  <2>1. RowMoved(s)
    BY <1>5 DEF StopWork, EndWorker, CancelWork, StoppedRow, RowMoved, RowsTyped
  <2>2. QED BY <1>0, <1>5, <2>1 DEF StopWork, EndWorker, CancelWork, Ended, RunMoved
<1>6. CASE CancelPending
  <2>1. RowMoved(s)
    BY <1>6 DEF CancelPending, RowMoved, RowsTyped, RowEnd
  <2>2. QED BY <1>6, <2>1 DEF CancelPending, ActiveRuns, Queued, RunMoved
<1>7. QED BY <1>1, <1>2, <1>3, <1>4, <1>5, <1>6 DEF RunStep

LEMMA SettledStep == ASSUME SchedTypes, SchedNext, NEW s \in Schedules PROVE SettledStays(s)
<1> USE DEF SchedTypes
<1> SUFFICES ASSUME row[s].st \in RowEnd
             PROVE  /\ row'[s].st = row[s].st \/ (row[s].st = "failed" /\ row'[s].st = "cancelled")
                    /\ run[s] = "none" => run'[s] = "none"
  BY DEF SettledStays
<1>0. row[s].st \notin {"none", "pending", "running", "queued"}
  BY DEF RowEnd
<1>1. ASSUME NEW q \in Manuals \cup OneShots, Submit(q) PROVE row'[s] = row[s] /\ run'[s] = run[s]
  BY <1>0, <1>1 DEF Submit, RowsTyped
<1>2. CASE Disable
  <2>1. ~Retired(s)
    BY DEF Retired
  <2>2. QED BY <1>2, <2>1 DEF Disable
<1>3. CASE CloseWorker
  BY <1>3 DEF CloseWorker
<1>4. ASSUME NEW p \in Threads, Materialize(p) PROVE row'[s].st = row[s].st /\ run'[s] = run[s]
  BY <1>0, <1>4 DEF Materialize, RowsTyped
<1>5. ASSUME NEW p \in Threads, NEW q \in Schedules, Recover(p, q)
      PROVE  row'[s].st = row[s].st /\ run'[s] = run[s]
  <2>1. Reclaimed(row[s].st) = row[s].st
    BY <1>0 DEF Reclaimed
  <2>2. QED BY <1>5, <2>1 DEF Recover, RowsTyped
<1>6. ASSUME NEW p \in Threads,
             Defer(p) \/ ClaimSchedule(p) \/ Revalidate(p) \/ AssignRun(p) \/ Observe(p)
      PROVE  row'[s].st = row[s].st /\ run'[s] = run[s]
  <2> DEFINE q == thread[p].s
  <2>1. q \in Schedules
    BY <1>6, OfThread DEF Defer, ClaimSchedule, Revalidate, AssignRun, Observe
  <2> HIDE DEF q
  <2>2. CASE Defer(p)
    BY <2>2 DEF Defer
  <2>3. CASE ClaimSchedule(p)
    BY <1>0, <2>1, <2>3 DEF ClaimSchedule, RowsTyped, q
  <2>4. CASE Revalidate(p)
    BY <2>1, <2>4, FinalizedRow DEF Revalidate, q
  <2>5. CASE AssignRun(p)
    <3>1. CASE UNCHANGED <<row, run>>
      BY <3>1
    <3>2. CASE \E st \in {"failed", "cancelled"} : FinalizeSchedule(q, st) /\ UNCHANGED run
      BY <2>1, <3>2, FinalizedRow
    <3>3. CASE /\ Dispatchable(q)
               /\ run' = [run EXCEPT ![q] = IF @ = "none" THEN "queued" ELSE @]
               /\ row' = [row EXCEPT ![q] = Dispatched]
      BY <1>0, <2>1, <3>3 DEF Dispatchable, RowsTyped, RunsTyped
    <3>4. QED BY <2>5, <3>1, <3>2, <3>3 DEF AssignRun, q
  <2>6. CASE Observe(p)
    BY <2>1, <2>6, FinalizedRow DEF Observe, q
  <2>7. QED BY <1>6, <2>2, <2>3, <2>4, <2>5, <2>6
<1>7. CASE RunStep
  <2>1. RowMoved(s) /\ RunMoved(s)
    BY <1>7, RunMoves
  <2>2. row[s].st \in {"completed", "failed", "cancelled"}
    BY DEF RowEnd
  <2>3. QED BY <1>0, <2>1, <2>2 DEF RowMoved, RunMoved
<1>9. CASE UNCHANGED <<row, run>>
  BY <1>9
<1>10. QED
  BY <1>1, <1>2, <1>3, <1>4, <1>5, <1>6, <1>7, <1>9, OtherSteps DEF RowSteps

\* A schedule that was settled is never dispatched afterwards, by whichever number of threads,
\* however old their claims are: create_or_get_run_for_schedule asks for the claimed row in the
\* transaction that makes the run.
THEOREM SettledStaysSettled == SchedSpec => SettledNotDispatched
<1>1. SchedTypes /\ [SchedNext]_svars
      => [\A s \in Schedules : row[s].st \in RowEnd =>
              /\ row'[s].st = row[s].st \/ (row[s].st = "failed" /\ row'[s].st = "cancelled")
              /\ run[s] = "none" => run'[s] = "none"]_svars
  BY SettledStep DEF SettledStays, svars
<1>2. QED BY <1>1, InitTypes, TypesStep, PTL DEF SchedSpec, SettledNotDispatched

-----------------------------------------------------------------------------
\* The link to the run, with one thread

\* A linked schedule was dispatched; a run is linked from its schedule, unless that was
\* settled; and a run that was never claimed is due.
Linked(s) ==
    /\ row[s].linked => row[s].st \in {"queued", "needs_input"} \cup RowEnd
    /\ run[s] # "none" => row[s].linked \/ row[s].st \in RowEnd
    /\ run[s] = "queued" /\ Open =>
            (enabled /\ row[s].linked /\ row[s].st = "queued") \/ row[s] = Unlinked

\* A claim that is being worked on has its row, or the row was settled.
ClaimKept(p) == thread[p].pc = "claimed" => row[thread[p].s].st \in {"running"} \cup RowEnd

LinkInv ==
    /\ SchedTypes
    /\ \A s \in Schedules : Linked(s)
    /\ \A p \in Threads : ClaimKept(p)
    /\ \A o \in owed : run[o[1]] \notin {"none", "queued"}

LEMMA LinkInit == SchedInit => LinkInv
BY InitTypes DEF SchedInit, LinkInv, Linked, ClaimKept, Idle

LEMMA FinalizedLink ==
    ASSUME RowsTyped, NEW s \in Schedules, NEW st \in RowEnd,
           \A q \in Schedules : Linked(q), UNCHANGED <<run, enabled, workspace>>,
           \/ FinalizeSchedule(s, st) /\ (row[s].st \in RowEnd \/ run[s] = "none" \/ st = "failed")
           \/ FinalizeForRun(s, st) /\ run[s] # "queued"
    PROVE  \A q \in Schedules : Linked(q)'
<1>0. "none" \notin RowEnd /\ "queued" \notin RowEnd
  BY DEF RowEnd
<1>1. CASE FinalizeSchedule(s, st) /\ (row[s].st \in RowEnd \/ run[s] = "none" \/ st = "failed")
  <2>1. \A q \in Schedules : q # s => row'[q] = row[q]
    BY <1>1 DEF FinalizeSchedule, RowsTyped
  <2>2. \/ row'[s] = row[s]
        \/ (run[s] = "none" \/ st = "failed") /\ row'[s] = [st |-> st, linked |-> FALSE]
    BY <1>1 DEF FinalizeSchedule, RowsTyped
  <2>3. ASSUME NEW q \in Schedules, q # s PROVE Linked(q)'
    BY <2>1, <2>3 DEF Linked, Open
  <2>4. Linked(s)'
    <3>1. CASE row'[s] = row[s]
      BY <3>1 DEF Linked, Open
    <3>2. CASE (run[s] = "none" \/ st = "failed") /\ row'[s] = [st |-> st, linked |-> FALSE]
      <4>1. row'[s].linked = FALSE /\ row'[s].st \in RowEnd /\ run'[s] = run[s]
        BY <3>2
      <4>2. run[s] # "none" => row'[s] = Unlinked
        BY <3>2 DEF Unlinked
      <4>3. QED BY <4>1, <4>2 DEF Linked
    <3>3. QED BY <2>2, <3>1, <3>2
  <2>5. QED BY <2>3, <2>4
<1>2. CASE FinalizeForRun(s, st) /\ run[s] # "queued"
  <2>1. \A q \in Schedules : q # s => row'[q] = row[q]
    BY <1>2, TellsRow
  <2>2. row'[s] = row[s] \/ (row'[s].linked = row[s].linked /\ row'[s].st = st)
    BY <1>2 DEF FinalizeForRun, RowsTyped
  <2>3. QED BY <1>0, <1>2, <2>1, <2>2 DEF Linked, Open
<1>3. QED BY <1>1, <1>2

\* Only the step that ends or tells a run, or that leaves it claimed, moves its row.
LEMMA NewRunKept ==
    ASSUME LinkInv, RunStep, NEW s \in Schedules, run'[s] = "queued"
    PROVE  row'[s] = row[s]
<1> USE DEF LinkInv, SchedTypes
<1>0. "queued" \notin RowEnd
  BY DEF RowEnd
<1>1. ASSUME NEW q \in Schedules, NEW st \in RowEnd, EndRun(q, st) PROVE row'[s] = row[s]
  <2>1. s # q
    BY <1>0, <1>1 DEF EndRun, SetRun, RunsTyped
  <2>2. QED BY <1>1, <2>1, TellsRow DEF EndRun
<1>2. ASSUME NEW o \in owed, Tell(o) PROVE row'[s] = row[s]
  <2>1. o[1] \in Schedules /\ o[2] \in RowEnd \cup {"needs_input"} /\ o[1] # s
    BY <1>2 DEF Tell, OwedTyped, Outcomes, RowEnd
  <2>2. QED BY <1>2, <2>1, TellsRow DEF Tell
<1>3. ASSUME NEW q \in Schedules, LimitRun(q) PROVE row'[s] = row[s]
  <2>1. s # q
    BY <1>3 DEF LimitRun, SetRun, RunsTyped
  <2>2. QED BY <1>3, <2>1 DEF LimitRun, RowsTyped
<1>4. CASE StopWork \/ EndWorker
  BY <1>0, <1>4 DEF StopWork, EndWorker, CancelWork, Ended
<1>5. CASE CancelPending
  BY <1>5 DEF CancelPending, ActiveRuns, Queued
<1>6. CASE UNCHANGED row
  BY <1>6
<1>7. QED
  BY <1>1, <1>2, <1>3, <1>4, <1>5, <1>6
  DEF RunStep, ClaimRun, InvokeRun, Requeue, Expire, Wait, Resume

LEMMA LinkedStep ==
    ASSUME LinkInv, SchedNext
    PROVE  \A s \in Schedules : Linked(s)'
<1> USE DEF LinkInv, SchedTypes
<1>0. /\ "none" \notin RowEnd /\ "pending" \notin RowEnd /\ "running" \notin RowEnd
      /\ "queued" \notin RowEnd /\ "failed" \in RowEnd /\ "cancelled" \in RowEnd
  BY DEF RowEnd
<1>u. "needs_input" \notin RowEnd
  BY DEF RowEnd
<1>1. ASSUME NEW q \in Manuals \cup OneShots, Submit(q) PROVE \A s \in Schedules : Linked(s)'
  BY <1>0, <1>1 DEF Submit, RowsTyped, Linked, Unlinked, Open
<1>2. CASE Disable
  <2>1. ASSUME NEW s \in Schedules, Retired(s) PROVE Linked(s)'
    BY <1>0, <1>2, <2>1 DEF Disable, Retired, RowsTyped, Linked, Queued
  <2>2. ASSUME NEW s \in Schedules, ~Retired(s) PROVE Linked(s)'
    BY <1>0, <1>2, <2>2 DEF Disable, Retired, RowsTyped, Linked, Queued, Open
  <2>3. QED BY <2>1, <2>2
<1>3. CASE CloseWorker
  BY <1>0, <1>3 DEF CloseWorker, RowsTyped, Linked, Open
<1>4. ASSUME NEW p \in Threads, Materialize(p) PROVE \A s \in Schedules : Linked(s)'
  BY <1>0, <1>4 DEF Materialize, RowsTyped, Linked, Unlinked, Open
<1>5. ASSUME NEW p \in Threads, NEW q \in Schedules, Recover(p, q) PROVE \A s \in Schedules : Linked(s)'
  <2>1. row'[q].linked = row[q].linked /\ (row'[q] = row[q] \/ row[q].st = "running")
    BY <1>5 DEF Recover, Reclaimed, RowsTyped
  <2>2. \A s \in Schedules : s # q => row'[s] = row[s]
    BY <1>5 DEF Recover, RowsTyped
  <2>3. QED BY <1>0, <1>5, <2>1, <2>2 DEF Recover, Linked, Unlinked, Open
<1>6. ASSUME NEW p \in Threads,
             Defer(p) \/ ClaimSchedule(p) \/ Revalidate(p) \/ AssignRun(p) \/ Observe(p)
      PROVE  \A s \in Schedules : Linked(s)'
  <2> DEFINE q == thread[p].s
  <2>1. q \in Schedules
    BY <1>6, OfThread DEF Defer, ClaimSchedule, Revalidate, AssignRun, Observe
  <2>2. thread[p].pc = "claimed" => row[q].st \in {"running"} \cup RowEnd
    BY DEF ClaimKept
  <2> HIDE DEF q
  <2>3. CASE Defer(p)
    BY <2>3 DEF Defer, Linked, Open
  <2>4. CASE ClaimSchedule(p)
    <3>1. CASE UNCHANGED row
      BY <2>4, <3>1 DEF ClaimSchedule, Linked, Open
    <3>2. CASE row[q].st = "pending" /\ \E st \in {"cancelled", "running"} : row' = [row EXCEPT ![q].st = st]
      <4>1. ~row[q].linked /\ run[q] = "none"
        BY <1>0, <2>1, <3>2 DEF Linked
      <4>2. \A s \in Schedules : row'[s] = row[s] \/ (s = q /\ row'[s].linked = row[s].linked)
        BY <2>1, <3>2 DEF RowsTyped
      <4>3. QED BY <2>1, <2>4, <4>1, <4>2 DEF ClaimSchedule, Linked, Open
    <3>3. QED BY <2>4, <3>1, <3>2 DEF ClaimSchedule, q
  <2>5. CASE Revalidate(p)
    <3>1. CASE UNCHANGED row
      BY <2>5, <3>1 DEF Revalidate, Linked, Open
    <3>2. CASE FinalizeSchedule(q, "failed")
      BY <1>0, <2>1, <2>5, <3>2, FinalizedLink DEF Revalidate
    <3>3. QED BY <2>5, <3>1, <3>2 DEF Revalidate, q
  <2>6. CASE AssignRun(p)
    <3>0. UNCHANGED <<enabled, workspace>>
      BY <2>6 DEF AssignRun
    <3>1. CASE UNCHANGED <<row, run>>
      BY <3>0, <3>1 DEF Linked, Open
    <3>2. CASE ~row[q].linked /\ (\E st \in RowEnd : FinalizeSchedule(q, st)) /\ UNCHANGED run
      BY <2>1, <3>0, <3>2, FinalizedLink DEF Linked
    <3>3. CASE /\ run' = [run EXCEPT ![q] = IF @ = "none" THEN "queued" ELSE @]
               /\ row' = [row EXCEPT ![q] = Dispatched]
               /\ enabled /\ ~row[q].linked /\ Dispatchable(q)
      <4>1. \A s \in Schedules : s # q => row'[s] = row[s] /\ run'[s] = run[s]
        BY <2>1, <3>3 DEF RowsTyped, RunsTyped
      <4>2. row'[q] = [st |-> "queued", linked |-> TRUE]
        BY <2>1, <3>3 DEF Dispatched, RowsTyped
      <4>3. QED BY <1>0, <2>1, <3>0, <3>3, <4>1, <4>2 DEF Linked, Open
    <3>4. QED BY <1>0, <2>6, <3>1, <3>2, <3>3 DEF AssignRun, q
  <2>7. CASE Observe(p)
    <3>0. UNCHANGED <<run, enabled, workspace>>
      BY <2>7 DEF Observe
    <3>1. CASE UNCHANGED row
      BY <3>0, <3>1 DEF Linked, Open
    <3>2. CASE FinalizeSchedule(q, "failed")
      BY <1>0, <2>1, <3>0, <3>2, FinalizedLink
    <3>3. CASE run[q] # "queued" /\ \E st \in RowEnd : FinalizeForRun(q, st)
      BY <2>1, <3>0, <3>3, FinalizedLink
    <3>4. QED BY <1>0, <2>7, <3>1, <3>2, <3>3 DEF Observe, q
  <2>8. QED BY <1>6, <2>3, <2>4, <2>5, <2>6, <2>7
<1>7. ASSUME RunStep, NEW s \in Schedules PROVE Linked(s)'
  <2>1. RowMoved(s) /\ RunMoved(s) /\ UNCHANGED enabled
    BY <1>7, RunMoves, RunFrame
  <2>2. (row[s].st \in {"queued", "needs_input"} \cup RowEnd) => row'[s].st \in {"queued", "needs_input"} \cup RowEnd
    BY <1>0, <2>1 DEF RowMoved
  <2>3. row[s].st \in RowEnd => row'[s].st \in RowEnd
    BY <1>0, <2>1 DEF RowMoved
  <2>4. Open' => Open
    BY <1>7 DEF Open, RunStep, ClaimRun, InvokeRun, Requeue, Expire, Wait, Resume, EndRun, Tell, LimitRun,
                StopWork, EndWorker, CancelPending
  <2>5. run'[s] = "queued" => row'[s] = row[s]
    BY <1>7, NewRunKept
  <2>6. (run'[s] = "none" <=> run[s] = "none") /\ (run'[s] = "queued" => run[s] = "queued")
    BY <2>1 DEF RunMoved
  <2>7. row'[s].linked = row[s].linked
    BY <2>1 DEF RowMoved
  <2>8. QED BY <2>1, <2>2, <2>3, <2>4, <2>5, <2>6, <2>7 DEF Linked
<1>8. CASE Enable
  BY <1>8 DEF Enable, Linked, Open
<1>9. CASE UNCHANGED <<row, run, enabled, workspace>>
  BY <1>9 DEF Linked, Open
<1>10. QED
  BY <1>1, <1>2, <1>3, <1>4, <1>5, <1>6, <1>7, <1>8, <1>9
  DEF SchedNext, OwnerStep, SchedulerStep, Tick, CreateDefinition, Deactivate, BeginUpdate,
      FinishUpdate, Plan, Decide, List, Weigh, Crash

\* An outcome is owed for a run that was claimed.
LEMMA OwedKept == ASSUME LinkInv, SchedNext PROVE \A o \in owed' : run'[o[1]] \notin {"none", "queued"}
<1> USE DEF LinkInv, SchedTypes
<1>0. "none" \notin RowEnd /\ "queued" \notin RowEnd /\ "failed" \in RowEnd
  BY DEF RowEnd
<1>1. ASSUME RunStep, NEW o \in owed' PROVE run'[o[1]] \notin {"none", "queued"}
  <2>1. CASE o \in owed
    <3>1. o[1] \in Schedules /\ run[o[1]] \notin {"none", "queued"}
      BY <2>1 DEF OwedTyped, Outcomes
    <3>2. QED BY <1>1, <3>1, RunMoves DEF RunMoved
  <2>2. CASE o \notin owed
    <3>1. \/ \E s \in Schedules : Expire(s)
          \/ \E s \in Schedules, st \in {"paused", "needs_input"} : Wait(s, st)
      BY <1>1, <2>2
      DEF RunStep, ClaimRun, InvokeRun, Requeue, LimitRun, Resume, EndRun, Tell, StopWork, EndWorker,
          CancelWork, CancelPending
    <3>2. PICK s \in Schedules, st \in {"failed", "paused", "needs_input"} :
              SetRun(s, st) /\ o[1] = s
      BY <2>2, <3>1 DEF Expire, Wait
    <3>3. QED BY <3>2 DEF SetRun, RunsTyped
  <2>3. QED BY <2>1, <2>2
<1>2. CASE Crash
  BY <1>2 DEF Crash
<1>3. ASSUME UNCHANGED owed, \A s \in Schedules : run[s] \notin {"none", "queued"} => run'[s] \notin {"none", "queued"}
      PROVE  \A o \in owed' : run'[o[1]] \notin {"none", "queued"}
  BY <1>3 DEF OwedTyped, Outcomes
<1>4. CASE Disable
  BY <1>0, <1>3, <1>4 DEF Disable
<1>5. ASSUME NEW p \in Threads, AssignRun(p) PROVE \A o \in owed' : run'[o[1]] \notin {"none", "queued"}
  BY <1>3, <1>5 DEF AssignRun, RunsTyped
<1>6. QED
  BY <1>1, <1>2, <1>3, <1>4, <1>5
  DEF SchedNext, OwnerStep, SchedulerStep, Tick, CreateDefinition, Deactivate, BeginUpdate,
      FinishUpdate, Submit, Enable, CloseWorker, Plan, Decide, Materialize, Recover, List, Weigh, Defer,
      ClaimSchedule, Revalidate, Observe

\* A step that leaves the claimed thread where it is leaves its row, or settles it.
LEMMA ClaimStep ==
    ASSUME LinkInv, SchedNext, \A p, q \in Threads : p = q, NEW p \in Threads
    PROVE  ClaimKept(p)'
<1> USE DEF LinkInv, SchedTypes
<1>0. /\ "none" \notin RowEnd /\ "pending" \notin RowEnd /\ "running" \notin RowEnd
      /\ "queued" \notin RowEnd /\ "failed" \in RowEnd /\ "cancelled" \in RowEnd
  BY DEF RowEnd
<1>1. CASE ClaimSchedule(p)
  <2>1. thread[p].s \in Schedules
    BY <1>1, OfThread DEF ClaimSchedule
  <2>2. CASE row' = [row EXCEPT ![thread[p].s].st = "running"] /\ thread' = [thread EXCEPT ![p].pc = "claimed"]
    BY <2>1, <2>2 DEF ClaimKept, RowsTyped, ThreadsTyped, ThreadRow
  <2>3. CASE Sleep(p)
    BY <2>3 DEF Sleep, ClaimKept, ThreadsTyped, Idle
  <2>4. QED BY <1>1, <2>2, <2>3 DEF ClaimSchedule
<1>2. ASSUME \/ \E d \in Definitions : Plan(p, d)
             \/ \E s \in Schedules : List(p, s)
             \/ Decide(p) \/ Materialize(p) \/ Weigh(p) \/ Defer(p) \/ Revalidate(p)
             \/ AssignRun(p) \/ Observe(p)
      PROVE  ClaimKept(p)'
  <2>1. thread'[p].pc # "claimed"
    <3>1. ASSUME Sleep(p) PROVE thread'[p].pc # "claimed"
      BY <3>1 DEF Sleep, ThreadsTyped, Idle
    <3>2. ASSUME NEW d \in Definitions, Plan(p, d) PROVE thread'[p].pc # "claimed"
      BY <3>2 DEF Plan, ThreadsTyped, Idle
    <3>3. ASSUME NEW s \in Schedules, List(p, s) PROVE thread'[p].pc # "claimed"
      BY <3>3 DEF List, ThreadsTyped, Idle
    <3>4. CASE Decide(p)
      BY <3>4 DEF Decide, ThreadsTyped, ThreadRow
    <3>5. CASE Materialize(p)
      BY <3>5 DEF Materialize, ThreadsTyped, ThreadRow, Idle
    <3>6. CASE Weigh(p)
      BY <3>6 DEF Weigh, ThreadsTyped, ThreadRow
    <3>7. CASE Defer(p) \/ Observe(p)
      BY <3>1, <3>7 DEF Defer, Observe
    <3>8. CASE Revalidate(p) \/ AssignRun(p)
      <4>1. Sleep(p) \/ \E pc \in {"checked", "assigned"} : thread' = [thread EXCEPT ![p].pc = pc]
        BY <3>8 DEF Revalidate, AssignRun
      <4>2. QED BY <3>1, <4>1 DEF ThreadsTyped, ThreadRow
    <3>9. QED BY <1>2, <3>2, <3>3, <3>4, <3>5, <3>6, <3>7, <3>8
  <2>2. QED BY <2>1 DEF ClaimKept
<1>3. ASSUME NEW s \in Schedules, Recover(p, s) PROVE ClaimKept(p)'
  BY <1>3 DEF Recover, ClaimKept
<1>4. CASE Crash
  BY <1>4 DEF Crash, ClaimKept, Idle
<1>5. ASSUME UNCHANGED thread, ~\E s \in Schedules : Recover(p, s) PROVE ClaimKept(p)'
  <2> SUFFICES ASSUME thread[p].pc = "claimed" PROVE row'[thread[p].s].st \in {"running"} \cup RowEnd
    BY <1>5 DEF ClaimKept
  <2> DEFINE q == thread[p].s
  <2>1. q \in Schedules /\ row[q].st \in {"running"} \cup RowEnd
    BY OfThread DEF ClaimKept
  <2> HIDE DEF q
  <2>2. CASE row[q].st \in RowEnd
    BY <1>0, <2>1, <2>2, SettledStep DEF SettledStays, q
  <2>3. CASE row[q].st = "running"
    <3>1. ~row[q].linked /\ run[q] = "none"
      BY <1>0, <2>1, <2>3 DEF Linked
    <3>2. ASSUME NEW s \in Manuals \cup OneShots, Submit(s) PROVE row'[q] = row[q]
      BY <2>1, <2>3, <3>2 DEF Submit, RowsTyped
    <3>3. ASSUME Disable \/ CloseWorker PROVE row'[q] = row[q] \/ row'[q].st = "cancelled"
      <4>1. CASE Disable
        BY <2>1, <4>1 DEF Disable, RowsTyped
      <4>2. CASE CloseWorker
        BY <2>1, <4>2 DEF CloseWorker, RowsTyped
      <4>3. QED BY <3>3, <4>1, <4>2
    <3>5. ASSUME RunStep PROVE row'[q].st \in {"running"} \cup RowEnd
      <4>1. RowMoved(q)
        BY <2>1, <3>5, RunMoves
      <4>2. QED BY <1>0, <2>3, <3>1, <4>1 DEF RowMoved
    <3>6. ASSUME NEW o \in Threads,
                 \/ Materialize(o) \/ Defer(o) \/ ClaimSchedule(o) \/ Revalidate(o) \/ AssignRun(o)
                 \/ Observe(o) \/ \E s \in Schedules : Recover(o, s)
          PROVE  FALSE
      <4>1. o = p
        OBVIOUS
      <4>2. thread'[p] = thread[p]
        BY <1>5
      <4>3. Revalidate(p)
        BY <1>5, <3>6, <4>1 DEF Materialize, Defer, ClaimSchedule, AssignRun, Observe
      <4>4. Sleep(p) \/ thread' = [thread EXCEPT ![p].pc = "checked"]
        BY <4>3 DEF Revalidate
      <4>5. thread'[p].pc # "claimed"
        BY <4>4 DEF Sleep, Idle, ThreadsTyped, ThreadRow
      <4>6. QED BY <4>2, <4>5
    <3>7. row'[q].st \in {"running"} \cup RowEnd
      <4>1. CASE UNCHANGED row
        BY <2>1, <4>1
      <4>2. CASE RowSteps
        BY <1>0, <2>1, <3>2, <3>3, <3>5, <3>6, <4>2 DEF RowSteps
      <4>3. QED BY <4>1, <4>2, OtherSteps
    <3>8. QED BY <3>7 DEF q
  <2>4. QED BY <2>1, <2>2, <2>3
<1>6. QED
  <2>1. ASSUME NEW o \in Threads, SchedulerStep(o) PROVE ClaimKept(p)'
    <3>1. o = p
      OBVIOUS
    <3>2. QED BY <1>1, <1>2, <1>3, <2>1, <3>1 DEF SchedulerStep
  <2>2. CASE Tick \/ OwnerStep \/ RunStep
    <3>1. UNCHANGED thread
      BY <2>2, RunFrame
      DEF OwnerStep, Tick, CreateDefinition, Deactivate, BeginUpdate, FinishUpdate, Submit, Enable,
          Disable, CloseWorker
    <3>2. QED BY <3>1, <1>3, <1>5
  <2>3. QED BY <1>4, <2>1, <2>2 DEF SchedNext

LEMMA LinkStep ==
    ASSUME LinkInv, [SchedNext]_svars, \A p, q \in Threads : p = q
    PROVE  LinkInv'
<1>1. CASE SchedNext
  BY <1>1, TypesStep, LinkedStep, ClaimStep, OwedKept DEF LinkInv
<1>2. CASE UNCHANGED svars
  <2>1. SchedTypes'
    BY TypesStep, <1>2 DEF LinkInv
  <2>2. QED BY <1>2, <2>1 DEF svars, LinkInv, Linked, ClaimKept, Open
<1>3. QED BY <1>1, <1>2

LEMMA FirstClaim ==
    ASSUME LinkInv, NEW s \in Schedules, run[s] = "queued", Open
    PROVE  (enabled /\ row[s].st = "queued") \/ row[s] = Unlinked
BY DEF LinkInv, Linked

\* With one thread for due schedules nothing that has ended starts: neither a settled schedule
\* (create_or_get_run_for_schedule) nor, although the claim does not ask for the principal
\* (_claim_next_queued_run_parallel), a run that was waiting when it was disabled
\* (set_schedule_principal_authority): such a run is found through the link from its
\* schedule, which only the end of the schedule or a failed dispatch takes away.
THEOREM NothingEndedStarts ==
    ASSUME \A p, q \in Threads : p = q
    PROVE  SchedSpec => EndedStaysEnded
<1>1. SchedSpec => []LinkInv
  BY LinkInit, LinkStep, PTL DEF SchedSpec
<1>2. LinkInv /\ [SchedNext]_svars
      => [\A s \in Schedules :
            run[s] = "queued" /\ run'[s] = "claimed" /\ Open =>
                (enabled /\ row[s].st = "queued") \/ row[s] = Unlinked]_svars
  BY FirstClaim DEF svars
<1>3. SchedSpec => FirstClaimIsDue
  BY <1>1, <1>2, PTL DEF SchedSpec, FirstClaimIsDue
<1>4. QED BY <1>3, SettledStaysSettled DEF EndedStaysEnded

-----------------------------------------------------------------------------
\* The container's inductive invariant

BoxRow == [st : Live \cup {"none", "gone"}, strict : BOOLEAN, image : Nat,
           holds : SUBSET Launched, sess : SUBSET Launched]
BeforeRun == {"idle", "probe", "replace", "replaced", "create", "boundary", "seed", "seeded", "start"}
InRun == {"project", "projected", "session", "publish", "wait", "clear"}
CallRow == [pc : BeforeRun \cup InRun \cup {"ready"}, gen : {0} \cup Gens, run : {0} \cup Launched,
            recreate : BOOLEAN]

BoxTyped == box \in [Gens -> BoxRow] /\ image \in Nat
CallTyped == caller \in [Callers -> CallRow]
RoomTypes ==
    /\ BoxTyped /\ CallTyped
    /\ named \in {0} \cup Gens
    /\ bound \in [Launched -> {0} \cup Gens]
    /\ seeded \in BOOLEAN /\ cleared \subseteq Launched

\* Docker: what lives has the worker's name, and what does not live holds nothing.
NameInv ==
    \A g \in Gens : /\ box[g].st \in Live => named = g
                    /\ box[g].st \notin Live => box[g].holds = {} /\ box[g].sess = {}

\* The launch works for a run whose authority is not cleared yet, in the generation of its
\* grant; only a launch works for a run.
LaunchInv ==
    LET me == caller["launch"]
    IN  /\ me.pc # "idle" => me.run \in Launched \ cleared
        /\ me.pc \in InRun => me.gen \in Gens /\ bound[me.run] = me.gen
        /\ caller["attach"].pc \in BeforeRun

\* Whoever may seed the home has seen the last container of the time before.
AllStrict == \A g \in Gens : box[g].st \in Live => box[g].strict
StrictInv == seeded \/ (\E c \in Callers : caller[c].pc = "seed") => AllStrict

RoomInv ==
    /\ RoomTypes /\ NameInv /\ LaunchInv /\ StrictInv
    /\ AuthorityInItsGeneration /\ ClearedIsClean

LEMMA RoomInit == ASSUME MaxGens \in Nat \ {0}, CRInit PROVE RoomInv
<1>1. 1 \in Gens /\ Callers = {"launch", "attach"}
  BY DEF Gens, Callers
<1>2. NoBox \in BoxRow /\ NoBox.st = "none" /\ NoBox.holds = {} /\ NoBox.sess = {}
  BY DEF NoBox, BoxRow
<1>3. /\ [NoBox EXCEPT !.st = "running", !.image = 1] \in BoxRow
      /\ [NoBox EXCEPT !.st = "running", !.image = 1].holds = {}
      /\ [NoBox EXCEPT !.st = "running", !.image = 1].sess = {}
      /\ [NoBox EXCEPT !.st = "running", !.image = 1].st = "running"
  BY <1>2 DEF BoxRow, Live
<1>4. NoCall \in CallRow /\ NoCall.pc = "idle"
  BY DEF NoCall, CallRow, BeforeRun
<1>5. "none" \notin Live /\ "running" \in Live
  BY DEF Live
<1> HIDE DEF Gens, NoBox, NoCall, Live
<1>6. /\ box \in [Gens -> BoxRow]
      /\ \A g \in Gens : box[g].holds = {} /\ box[g].sess = {}
      /\ \A g \in Gens : box[g].st \in Live => named = g
      /\ named \in {0} \cup Gens
  BY <1>1, <1>2, <1>3, <1>5 DEF CRInit
<1>7. RoomTypes
  BY <1>1, <1>4, <1>6 DEF CRInit, RoomTypes, BoxTyped, CallTyped
<1>8. caller["launch"].pc = "idle" /\ caller["attach"].pc = "idle"
  BY <1>1, <1>4 DEF CRInit
<1>9. NameInv /\ LaunchInv /\ StrictInv
  BY <1>1, <1>6, <1>8 DEF CRInit, NameInv, LaunchInv, StrictInv, InRun, BeforeRun
<1>10. AuthorityInItsGeneration /\ ClearedIsClean
  BY <1>6 DEF CRInit, AuthorityInItsGeneration, ClearedIsClean
<1>11. QED BY <1>7, <1>9, <1>10 DEF RoomInv

-----------------------------------------------------------------------------
\* What the steps may do

\* A step of ensure_ready that moves its caller only, or writes the home.
Moves(c) ==
    /\ UNCHANGED <<box, named, image, bound, cleared>>
    /\ \E new \in CallRow :
         /\ caller' = [caller EXCEPT ![c] = new] /\ new.pc \in BeforeRun
         /\ new.pc # "idle" /\ c = "launch" => new.run \in Launched \ cleared
         /\ new.pc = "seed" => AllStrict
         /\ seeded' = seeded \/ (seeded' \in BOOLEAN /\ caller[c].pc = "seed")

LEMMA MovesKeep == ASSUME RoomInv, NEW c \in Callers, Moves(c) PROVE RoomInv'
<1> USE DEF RoomInv, RoomTypes
<1>1. PICK new \in CallRow :
         /\ caller' = [caller EXCEPT ![c] = new] /\ new.pc \in BeforeRun
         /\ new.pc # "idle" /\ c = "launch" => new.run \in Launched \ cleared
         /\ new.pc = "seed" => AllStrict
         /\ seeded' = seeded \/ (seeded' \in BOOLEAN /\ caller[c].pc = "seed")
  BY DEF Moves
<1>2. CallTyped'
  BY <1>1 DEF CallTyped
<1>3. RoomTypes'
  BY <1>1, <1>2 DEF Moves, BoxTyped
<1>4. LaunchInv'
  <2>1. new.pc \notin InRun
    BY <1>1 DEF InRun, BeforeRun
  <2>2. caller'[c] = new /\ \A o \in Callers : o # c => caller'[o] = caller[o]
    BY <1>1 DEF CallTyped
  <2>3. "launch" \in Callers /\ "attach" \in Callers
    BY DEF Callers
  <2>4. QED BY <1>1, <2>1, <2>2, <2>3 DEF LaunchInv, Moves
<1>5. StrictInv'
  <2>1. caller'[c] = new /\ \A o \in Callers : o # c => caller'[o] = caller[o]
    BY <1>1 DEF CallTyped
  <2>2. AllStrict' <=> AllStrict
    BY DEF AllStrict, Moves
  <2>3. QED BY <1>1, <2>1, <2>2 DEF StrictInv
<1>6. NameInv' /\ AuthorityInItsGeneration' /\ ClearedIsClean'
  BY DEF Moves, NameInv, AuthorityInItsGeneration, ClearedIsClean
<1>7. QED BY <1>3, <1>4, <1>5, <1>6

\* A box that may take the place of another: it lives under the name or holds nothing, and
\* neither authority nor strictness is new.
Lesser(g, new) ==
    /\ new \in BoxRow
    /\ new.holds \subseteq box[g].holds
    /\ new.sess \subseteq box[g].sess \cup box[g].holds
    /\ new.strict = box[g].strict
    /\ new.st \in Live => box[g].st \in Live
    /\ new.st \notin Live => new.holds = {} /\ new.sess = {}

\* The container part of the invariant
BoxInv == NameInv /\ AuthorityInItsGeneration /\ ClearedIsClean

LEMMA LesserKeeps ==
    ASSUME RoomInv, NEW g \in Gens, NEW new, Lesser(g, new), box' = [box EXCEPT ![g] = new],
           UNCHANGED <<image, bound>>, named' = named \/ (named' = 0 /\ named = g /\ new.st \notin Live),
           cleared' = cleared
    PROVE  BoxTyped' /\ BoxInv' /\ (AllStrict => AllStrict')
<1> USE DEF RoomInv, RoomTypes
<1>1. BoxTyped'
  BY DEF BoxTyped, Lesser
<1>2. box'[g] = new /\ \A o \in Gens : o # g => box'[o] = box[o]
  BY DEF BoxTyped
<1>3. NameInv'
  BY <1>2 DEF NameInv, Lesser
<1>4. AuthorityInItsGeneration'
  <2>1. new.holds \cup new.sess # {} => box[g].holds \cup box[g].sess # {}
    BY DEF Lesser
  <2>2. QED BY <1>2, <2>1 DEF AuthorityInItsGeneration, Lesser
<1>5. ClearedIsClean'
  BY <1>2 DEF ClearedIsClean, Lesser
<1>6. AllStrict => AllStrict'
  BY <1>2 DEF AllStrict, Lesser
<1>7. QED BY <1>1, <1>3, <1>4, <1>5, <1>6 DEF BoxInv

\* The rest of the invariant, when the caller is left alone or goes on.
LEMMA Rest ==
    ASSUME RoomInv, BoxTyped', BoxInv', CallTyped', LaunchInv', StrictInv',
           named' \in {0} \cup Gens, bound' \in [Launched -> {0} \cup Gens],
           seeded' \in BOOLEAN, cleared' \subseteq Launched
    PROVE  RoomInv'
BY DEF RoomInv, RoomTypes, BoxInv

LEMMA QuietCallers ==
    ASSUME RoomInv, UNCHANGED <<caller, bound, cleared, seeded>>, AllStrict => AllStrict'
    PROVE  CallTyped' /\ LaunchInv' /\ StrictInv'
BY DEF RoomInv, RoomTypes, CallTyped, LaunchInv, StrictInv

\* A caller that goes on, in its run or before it.
LEMMA CallGoesOn ==
    ASSUME RoomInv, NEW c \in Callers, NEW pc \in BeforeRun \cup InRun \cup {"ready"}, pc # "seed",
           caller' = [caller EXCEPT ![c].pc = pc], caller[c].pc # "idle",
           pc \in InRun => caller[c].pc \in InRun, pc = "ready" => c = "launch",
           UNCHANGED <<bound, cleared, seeded>>, AllStrict => AllStrict'
    PROVE  CallTyped' /\ LaunchInv' /\ StrictInv'
<1> USE DEF RoomInv, RoomTypes
<1>1. CallTyped'
  BY DEF CallTyped, CallRow
<1>2. /\ caller'[c].pc = pc /\ caller'[c].run = caller[c].run /\ caller'[c].gen = caller[c].gen
      /\ \A o \in Callers : o # c => caller'[o] = caller[o]
  BY DEF CallTyped, CallRow
<1>3. (\A x \in BeforeRun : x \notin InRun) /\ "launch" \in Callers /\ "attach" \in Callers
  BY DEF BeforeRun, InRun, Callers
<1>4. LaunchInv'
  BY <1>2, <1>3 DEF LaunchInv
<1>5. StrictInv'
  BY <1>2 DEF StrictInv
<1>6. QED BY <1>1, <1>4, <1>5

LEMMA GoesIdle ==
    ASSUME RoomInv, NEW c \in Callers, caller' = [caller EXCEPT ![c] = NoCall],
           bound' = bound, seeded' = seeded, AllStrict => AllStrict',
           cleared' = cleared \/ (cleared' = cleared \cup {caller[c].run} /\ c = "launch")
    PROVE  CallTyped' /\ LaunchInv' /\ StrictInv'
<1> USE DEF RoomInv, RoomTypes
<1>1. NoCall \in CallRow /\ NoCall.pc = "idle"
  BY DEF NoCall, CallRow, BeforeRun
<1>2. CallTyped' /\ caller'[c].pc = "idle" /\ \A o \in Callers : o # c => caller'[o] = caller[o]
  BY <1>1 DEF CallTyped
<1>3. "idle" \in BeforeRun \ InRun /\ "launch" \in Callers /\ "attach" \in Callers
  BY DEF BeforeRun, InRun, Callers
<1>4. LaunchInv'
  BY <1>2, <1>3 DEF LaunchInv
<1>5. StrictInv'
  BY <1>2 DEF StrictInv
<1>6. QED BY <1>2, <1>4, <1>5

-----------------------------------------------------------------------------
\* The steps

LEMMA CallerFacts ==
    ASSUME RoomInv, NEW c \in Callers
    PROVE  /\ caller[c] \in CallRow
           /\ c = "launch" \/ c = "attach"
           /\ caller[c].pc # "idle" /\ c = "launch" => caller[c].run \in Launched \ cleared
           /\ caller[c].pc \in InRun \cup {"ready"}
              => c = "launch" /\ caller[c].run \in Launched \ cleared
           /\ caller[c].pc \in InRun => caller[c].gen \in Gens /\ bound[caller[c].run] = caller[c].gen
<1>1. \A pc \in InRun \cup {"ready"} : pc \notin BeforeRun /\ pc # "idle"
  BY DEF InRun, BeforeRun
<1>2. QED BY <1>1 DEF RoomInv, RoomTypes, CallTyped, LaunchInv, Callers

\* Live containers have the name, so one strict container under the name is all of them.
LEMMA NamedStrict ==
    ASSUME RoomInv, named \in Gens => box[named].strict
    PROVE  AllStrict
BY DEF RoomInv, NameInv, AllStrict

LEMMA BeforeSteps ==
    ASSUME RoomInv, NEW c \in Callers,
           \/ Probe(c) \/ Replaced(c) \/ Boundary(c) \/ SeedBootstrap(c) \/ PostSeed(c)
    PROVE  RoomInv'
<1> USE DEF RoomInv, RoomTypes
<1>1. caller[c] \in CallRow /\ (c = "launch" => caller[c].run \in Launched \ cleared)
  BY CallerFacts DEF Probe, Replaced, Boundary, SeedBootstrap, PostSeed
<1>2. caller \in [Callers -> CallRow]
  BY DEF CallTyped
<1> SUFFICES Moves(c)
  BY MovesKeep
<1>3. UNCHANGED <<box, named, image, bound, cleared>>
  BY DEF Probe, Replaced, Boundary, SeedBootstrap, PostSeed
<1>4. CASE Probe(c)
  <2>1. PICK pc \in {"create", "boundary", "replace"}, g \in {0} \cup Gens :
          caller' = [caller EXCEPT ![c].pc = pc, ![c].gen = g] /\ UNCHANGED seeded
    BY <1>4 DEF Probe, GoesWith
  <2> DEFINE new == [caller[c] EXCEPT !.pc = pc, !.gen = g]
  <2>2. new \in CallRow /\ new.pc = pc /\ new.run = caller[c].run
    BY <1>1 DEF CallRow, BeforeRun
  <2>3. caller' = [caller EXCEPT ![c] = new]
    BY <1>2, <2>1
  <2>4. pc \in BeforeRun
    BY DEF BeforeRun
  <2> HIDE DEF new
  <2>5. QED BY <1>1, <1>3, <2>1, <2>2, <2>3, <2>4 DEF Moves
<1>5. ASSUME NEW pc \in BeforeRun, Goes(c, pc), pc = "seed" => AllStrict,
             seeded' = seeded \/ (seeded' = TRUE /\ caller[c].pc = "seed")
      PROVE  Moves(c)
  <2> DEFINE new == [caller[c] EXCEPT !.pc = pc]
  <2>2. new \in CallRow /\ new.pc = pc /\ new.run = caller[c].run
    BY <1>1 DEF CallRow
  <2>3. caller' = [caller EXCEPT ![c] = new]
    BY <1>2, <1>5 DEF Goes
  <2> HIDE DEF new
  <2>5. QED BY <1>1, <1>3, <1>5, <2>2, <2>3 DEF Moves
<1>6. CASE Boundary(c)
  <2>1. AllStrict
    BY <1>6, NamedStrict DEF Boundary, Matches, StrictOptions, Inspected
  <2>2. QED BY <1>5, <1>6, <2>1 DEF Boundary, BeforeRun
<1>7. CASE Replaced(c) \/ SeedBootstrap(c) \/ PostSeed(c)
  BY <1>5, <1>7 DEF Replaced, SeedBootstrap, PostSeed, BeforeRun
<1>8. QED BY <1>4, <1>6, <1>7

LEMMA EntrySteps == ASSUME RoomInv, Launch \/ Attach PROVE RoomInv'
<1> USE DEF RoomInv, RoomTypes
<1>1. "launch" \in Callers /\ "attach" \in Callers /\ "probe" \in BeforeRun
  BY DEF Callers, BeforeRun
<1>2. CASE Launch
  <2>1. PICK r \in Launched : /\ r \notin cleared
                          /\ caller' = [caller EXCEPT !["launch"] =
                                [pc |-> "probe", gen |-> 0, run |-> r, recreate |-> TRUE]]
    BY <1>2 DEF Launch
  <2> DEFINE new == [pc |-> "probe", gen |-> 0, run |-> r, recreate |-> TRUE]
  <2>2. new \in CallRow /\ new.pc = "probe" /\ new.run = r
    BY <1>1 DEF CallRow
  <2> HIDE DEF new
  <2>3. Moves("launch")
    BY <1>1, <1>2, <2>1, <2>2 DEF Moves, Launch, new
  <2>4. QED BY <1>1, <2>3, MovesKeep
<1>3. CASE Attach
  <2> DEFINE new == [NoCall EXCEPT !.pc = "probe", !.recreate = (caller["launch"].pc = "idle")]
  <2>1. NoCall \in CallRow
    BY DEF NoCall, CallRow, BeforeRun
  <2>2. new \in CallRow /\ new.pc = "probe"
    BY <1>1, <2>1 DEF CallRow
  <2>3. caller' = [caller EXCEPT !["attach"] = new]
    BY <1>3 DEF Attach
  <2> HIDE DEF new
  <2>4. Moves("attach")
    BY <1>1, <1>3, <2>2, <2>3 DEF Moves, Attach
  <2>5. QED BY <1>1, <2>4, MovesKeep
<1>4. QED BY <1>2, <1>3

LEMMA AbortStep == ASSUME RoomInv, NEW c \in Callers, Abort(c) PROVE RoomInv'
<1> USE DEF RoomInv, RoomTypes
<1>1. NoCall \in CallRow /\ NoCall.pc = "idle" /\ "idle" \in BeforeRun
  BY DEF NoCall, CallRow, BeforeRun
<1>2. Moves(c)
  BY <1>1 DEF Abort, Moves
<1>3. QED BY <1>2, MovesKeep

\* A removal, by a caller or by the release
LEMMA RemovedLesser ==
    ASSUME RoomInv, NEW g \in Gens
    PROVE  /\ Lesser(g, [box[g] EXCEPT !.st = "gone", !.holds = {}, !.sess = {}])
           /\ Removed(g) = [box EXCEPT ![g] = [box[g] EXCEPT !.st = "gone", !.holds = {}, !.sess = {}]]
           /\ [box[g] EXCEPT !.st = "gone", !.holds = {}, !.sess = {}].st \notin Live
<1>1. box \in [Gens -> BoxRow] /\ "gone" \notin Live
  BY DEF RoomInv, RoomTypes, BoxTyped, Live
<1>2. QED BY <1>1 DEF Lesser, Removed, BoxRow

LEMMA RemovedKeeps ==
    ASSUME RoomInv, NEW g \in {0} \cup Gens, box' = Removed(g), named' = NameWithout(g),
           UNCHANGED <<image, bound, cleared>>
    PROVE  BoxTyped' /\ BoxInv' /\ (AllStrict => AllStrict') /\ named' \in {0} \cup Gens
<1>0. 0 \notin Gens
  BY DEF Gens
<1>1. CASE g \in Gens
  <2>1. named' = named \/ (named' = 0 /\ named = g)
    BY DEF NameWithout
  <2>2. QED BY <1>1, <2>1, RemovedLesser, LesserKeeps DEF RoomInv, RoomTypes
<1>2. CASE g = 0
  <2>1. named' = named
    BY <1>2 DEF NameWithout
  <2>2. box' = box
    BY <1>0, <1>2 DEF Removed, RoomInv, RoomTypes, BoxTyped
  <2>3. QED
    BY <2>1, <2>2 DEF RoomInv, RoomTypes, BoxTyped, BoxInv, NameInv, AuthorityInItsGeneration,
                      ClearedIsClean, AllStrict
<1>3. QED BY <1>1, <1>2

LEMMA RemovalSteps ==
    ASSUME RoomInv, (\E c \in Callers : Replace(c)) \/ (ReleaseRemove /\ rel.gen \in {0} \cup Gens)
    PROVE  RoomInv'
<1>0. RoomTypes
  BY DEF RoomInv
<1>1. ASSUME NEW c \in Callers, Replace(c) PROVE RoomInv'
  <2>1. caller[c].gen \in {0} \cup Gens
    BY CallerFacts DEF CallRow
  <2>2. BoxTyped' /\ BoxInv' /\ (AllStrict => AllStrict') /\ named' \in {0} \cup Gens
    BY <1>1, <2>1, RemovedKeeps DEF Replace
  <2>3. CallTyped' /\ LaunchInv' /\ StrictInv'
    <3>1. PICK pc \in BeforeRun : pc = "replaced" /\ pc \notin InRun /\ pc \notin {"seed", "ready"}
      BY DEF BeforeRun, InRun
    <3>2. /\ caller' = [caller EXCEPT ![c].pc = pc] /\ caller[c].pc # "idle"
          /\ UNCHANGED <<bound, cleared, seeded>>
      BY <1>1, <3>1 DEF Replace, Goes
    <3>3. QED BY <2>2, <3>1, <3>2, CallGoesOn
  <2>4. QED BY <1>0, <1>1, <2>2, <2>3, Rest DEF Replace, RoomTypes
<1>2. CASE ReleaseRemove /\ rel.gen \in {0} \cup Gens
  <2>1. BoxTyped' /\ BoxInv' /\ (AllStrict => AllStrict') /\ named' \in {0} \cup Gens
    BY <1>2, RemovedKeeps DEF ReleaseRemove
  <2>2. CallTyped' /\ LaunchInv' /\ StrictInv'
    BY <1>2, <2>1, QuietCallers DEF ReleaseRemove
  <2>3. QED BY <1>0, <1>2, <2>1, <2>2, Rest DEF ReleaseRemove, RoomTypes
<1>3. QED BY <1>1, <1>2

LEMMA CreateStep == ASSUME RoomInv, NEW c \in Callers, Create(c) PROVE RoomInv'
<1> USE DEF RoomInv, RoomTypes
<1>0. 0 \notin Gens /\ "created" \in Live /\ "none" \notin Live
  BY DEF Gens, Live
<1>1. PICK g \in Gens : box' = [box EXCEPT ![g] = NewBox] /\ named' = g /\ GoesWith(c, "boundary", g)
  BY DEF Create
<1>2. NewBox \in BoxRow /\ NewBox.st = "created" /\ NewBox.holds = {} /\ NewBox.sess = {} /\ NewBox.strict
  <2>1. NoBox \in BoxRow /\ NoBox.holds = {} /\ NoBox.sess = {}
    BY DEF NoBox, BoxRow
  <2>2. QED BY <1>0, <2>1 DEF NewBox, BoxTyped, BoxRow
<1>3. box'[g] = NewBox /\ \A o \in Gens : o # g => box'[o] = box[o]
  BY <1>1 DEF BoxTyped
<1>4. \A o \in Gens : box[o].st \notin Live
  BY <1>0 DEF Create, NameInv
<1>5. BoxTyped'
  BY <1>1, <1>2 DEF BoxTyped, Create
<1>6. NameInv' /\ AllStrict'
  BY <1>0, <1>1, <1>2, <1>3, <1>4 DEF NameInv, AllStrict
<1>7. AuthorityInItsGeneration' /\ ClearedIsClean'
  BY <1>2, <1>3 DEF AuthorityInItsGeneration, ClearedIsClean, Create
<1>8. CallTyped' /\ LaunchInv' /\ StrictInv'
  <2> DEFINE new == [caller[c] EXCEPT !.pc = "boundary", !.gen = g]
  <2>1. caller[c] \in CallRow /\ (c = "launch" => caller[c].run \in Launched \ cleared)
    BY CallerFacts DEF Create
  <2>2. new \in CallRow /\ new.pc = "boundary" /\ new.run = caller[c].run
    BY <2>1 DEF CallRow, BeforeRun
  <2>3. caller' = [caller EXCEPT ![c] = new]
    BY <1>1 DEF GoesWith, CallTyped
  <2> HIDE DEF new
  <2>4. CallTyped' /\ caller'[c] = new /\ \A o \in Callers : o # c => caller'[o] = caller[o]
    BY <2>2, <2>3 DEF CallTyped
  <2>5. "boundary" \in BeforeRun \ InRun /\ "launch" \in Callers /\ "attach" \in Callers
    BY DEF BeforeRun, InRun, Callers
  <2>6. LaunchInv'
    BY <2>1, <2>2, <2>4, <2>5 DEF LaunchInv, Create
  <2>7. QED BY <1>6, <2>4, <2>6 DEF StrictInv
<1>9. QED BY <1>1, <1>5, <1>6, <1>7, <1>8, Rest DEF BoxInv, Create

\* Steps that leave a lesser box in place of a live one and no name behind
LEMMA BoxSteps ==
    ASSUME RoomInv,
           \/ ReleaseStop /\ rel.gen \in {0} \cup Gens
           \/ ReleasePause /\ rel.gen \in {0} \cup Gens
           \/ ScriptEnds \/ ContainerExits
    PROVE  RoomInv'
<1> USE DEF RoomInv, RoomTypes
<1>0. box \in [Gens -> BoxRow] /\ 0 \notin Gens /\ {"running", "paused", "exited"} \subseteq Live
  BY DEF BoxTyped, Gens, Live
<1>1. UNCHANGED <<named, image, caller, bound, cleared, seeded>>
  BY DEF ReleaseStop, ReleasePause, ScriptEnds, ContainerExits
<1>2. \/ UNCHANGED box
      \/ \E g \in Gens : \E new : Lesser(g, new) /\ box' = [box EXCEPT ![g] = new]
  <2>1. ASSUME NEW g \in Gens, NEW runs \in SUBSET Launched, NEW scrubbed \in BOOLEAN,
               box[g].st = "running", box' = BoxStopped(g, runs, scrubbed)
        PROVE  \E new : Lesser(g, new) /\ box' = [box EXCEPT ![g] = new]
    <3> DEFINE new == [box[g] EXCEPT !.sess = box[g].sess \ runs,
                                     !.holds = box[g].holds \ (IF scrubbed THEN runs ELSE {})]
    <3>1. Lesser(g, new)
      BY <1>0, <2>1 DEF Lesser, BoxRow
    <3>2. box' = [box EXCEPT ![g] = new]
      BY <1>0, <2>1 DEF BoxStopped
    <3>3. QED BY <3>1, <3>2
  <2>2. CASE ReleaseStop /\ rel.gen \in {0} \cup Gens
    <3>1. CASE rel.gen \in Gens
      <4>1. box[rel.gen].sess \in SUBSET Launched
        BY <1>0, <3>1 DEF BoxRow
      <4>2. QED BY <2>1, <2>2, <3>1, <4>1 DEF ReleaseStop
    <3>2. CASE rel.gen = 0
      BY <1>0, <2>2, <3>2 DEF ReleaseStop, BoxStopped
    <3>3. QED BY <2>2, <3>1, <3>2
  <2>3. CASE ReleasePause /\ rel.gen \in {0} \cup Gens
    <3>1. CASE rel.gen \in Gens
      <4> DEFINE new == [box[rel.gen] EXCEPT !.st = "paused"]
      <4>1. Lesser(rel.gen, new)
        BY <1>0, <2>3, <3>1 DEF ReleasePause, Lesser, BoxRow
      <4>2. box' = [box EXCEPT ![rel.gen] = new]
        BY <1>0, <2>3, <3>1 DEF ReleasePause
      <4>3. QED BY <3>1, <4>1, <4>2
    <3>2. CASE rel.gen = 0
      BY <1>0, <2>3, <3>2 DEF ReleasePause
    <3>3. QED BY <2>3, <3>1, <3>2
  <2>4. CASE ScriptEnds
    <3>1. PICK g \in Gens : \E r \in box[g].sess : box[g].st = "running" /\ box' = BoxStopped(g, {r}, TRUE)
      BY <2>4 DEF ScriptEnds
    <3>2. box[g].sess \subseteq Launched
      BY <1>0 DEF BoxRow
    <3>3. QED BY <2>1, <3>1, <3>2
  <2>5. CASE ContainerExits
    <3>1. PICK g \in Gens : /\ box[g].st = "running"
                            /\ box' = [box EXCEPT ![g].st = "exited", ![g].sess = {}, ![g].holds = {}]
      BY <2>5 DEF ContainerExits
    <3> DEFINE new == [box[g] EXCEPT !.st = "exited", !.sess = {}, !.holds = {}]
    <3>2. Lesser(g, new)
      BY <1>0, <3>1 DEF Lesser, BoxRow
    <3>3. box' = [box EXCEPT ![g] = new]
      BY <1>0, <3>1
    <3>4. QED BY <3>2, <3>3
  <2>6. QED BY <2>2, <2>3, <2>4, <2>5
<1>3. BoxTyped' /\ BoxInv' /\ (AllStrict => AllStrict')
  <2>1. CASE UNCHANGED box
    BY <1>1, <2>1 DEF BoxTyped, BoxInv, NameInv, AuthorityInItsGeneration, ClearedIsClean, AllStrict
  <2>2. CASE \E g \in Gens : \E new : Lesser(g, new) /\ box' = [box EXCEPT ![g] = new]
    BY <1>1, <2>2, LesserKeeps
  <2>3. QED BY <1>2, <2>1, <2>2
<1>4. QED BY <1>1, <1>3, QuietCallers, Rest

LEMMA RoomStartStep == ASSUME RoomInv, NEW c \in Callers, StartBox(c) PROVE RoomInv'
<1> USE DEF RoomInv, RoomTypes
<1> DEFINE g == caller[c].gen
           new == [box[g] EXCEPT !.st = "running"]
<1>1. g \in Gens /\ box[g].st \in Live /\ named = g
  BY DEF StartBox, Matches
<1>2. box[g] \in BoxRow /\ "running" \in Live
  BY <1>1 DEF BoxTyped, Live
<1>3. Lesser(g, new)
  BY <1>1, <1>2 DEF Lesser, BoxRow
<1>4. box' = [box EXCEPT ![g] = new]
  BY <1>1 DEF StartBox, BoxTyped
<1> HIDE DEF g, new
<1>5. BoxTyped' /\ BoxInv' /\ (AllStrict => AllStrict')
  BY <1>1, <1>3, <1>4, LesserKeeps DEF StartBox
<1>6. CallTyped' /\ LaunchInv' /\ StrictInv'
  <2>1. PICK pc \in {"idle", "ready"} :
          caller' = [caller EXCEPT ![c].pc = pc] /\ (pc = "ready" => c # "attach")
    BY DEF StartBox
  <2>2. pc \in BeforeRun \cup InRun \cup {"ready"} /\ pc \notin InRun /\ pc # "seed"
    BY DEF BeforeRun, InRun
  <2>3. caller[c].pc # "idle" /\ UNCHANGED <<bound, cleared, seeded>>
    BY DEF StartBox
  <2>4. pc = "ready" => c = "launch"
    BY <2>1 DEF Callers
  <2>5. QED BY <1>5, <2>1, <2>2, <2>3, <2>4, CallGoesOn
<1>7. QED BY <1>5, <1>6, Rest DEF StartBox

LEMMA BindStep == ASSUME RoomInv, NEW c \in Callers, Bind(c) PROVE RoomInv'
<1> USE DEF RoomInv, RoomTypes
<1>1. c = "launch" /\ caller[c].run \in Launched
  BY CallerFacts DEF Bind
<1>2. PICK r \in Launched : r = caller[c].run
  BY <1>1
<1>3. bound[r] = 0 /\ bound' = [bound EXCEPT ![r] = named] /\ 0 \notin Gens
  BY <1>2 DEF Bind, Gens
<1>4. CallTyped' /\ LaunchInv' /\ StrictInv'
  <2>1. "probe" \in BeforeRun /\ "probe" \notin InRun /\ "launch" \in Callers /\ "attach" \in Callers
    BY DEF BeforeRun, InRun, Callers
  <2>2. CallTyped'
    BY <2>1 DEF Bind, Goes, CallTyped, CallRow
  <2>3. /\ caller'[c].pc = "probe" /\ caller'[c].run = r
        /\ \A o \in Callers : o # c => caller'[o] = caller[o]
    BY <1>2 DEF Bind, Goes, CallTyped, CallRow
  <2>4. r \notin cleared
    BY <1>1, <1>2 DEF Bind, LaunchInv
  <2>5. LaunchInv'
    BY <1>1, <2>1, <2>3, <2>4 DEF LaunchInv, Bind
  <2>6. StrictInv'
    BY <2>3 DEF StrictInv, AllStrict, Bind
  <2>7. QED BY <2>2, <2>5, <2>6
<1>5. BoxTyped' /\ NameInv' /\ ClearedIsClean'
  BY DEF Bind, BoxTyped, NameInv, ClearedIsClean
<1>6. AuthorityInItsGeneration'
  <2>1. \A g \in Gens : r \notin box[g].holds \cup box[g].sess
    BY <1>3 DEF AuthorityInItsGeneration
  <2>2. \A q : q # r => bound'[q] = bound[q]
    BY <1>3
  <2>3. QED BY <2>1, <2>2 DEF AuthorityInItsGeneration, Bind
<1>7. QED BY <1>3, <1>4, <1>5, <1>6, Rest DEF Bind, BoxInv

LEMMA RunInspectStep == ASSUME RoomInv, NEW c \in Callers, RunInspect(c) PROVE RoomInv'
<1> USE DEF RoomInv, RoomTypes
<1>1. c = "launch" /\ caller[c] \in CallRow /\ caller[c].run \in Launched \ cleared
  BY CallerFacts DEF RunInspect
<1>2. named \in Gens /\ bound[caller[c].run] = named
  BY DEF RunInspect, SameGeneration
<1> DEFINE new == [caller[c] EXCEPT !.pc = "project", !.gen = named]
<1>3. new \in CallRow /\ new.pc = "project" /\ new.gen = named /\ new.run = caller[c].run
  BY <1>1 DEF CallRow, InRun
<1>4. caller' = [caller EXCEPT ![c] = new]
  BY DEF RunInspect, GoesWith, CallTyped
<1> HIDE DEF new
<1>5. CallTyped' /\ caller'[c] = new /\ \A o \in Callers : o # c => caller'[o] = caller[o]
  BY <1>3, <1>4 DEF CallTyped
<1>6. LaunchInv'
  <2>1. "launch" \in Callers /\ "attach" \in Callers
    BY DEF Callers
  <2>2. QED BY <1>1, <1>2, <1>3, <1>5, <2>1 DEF LaunchInv, RunInspect
<1>7. StrictInv'
  BY <1>3, <1>5 DEF StrictInv, AllStrict, RunInspect
<1>8. BoxTyped' /\ BoxInv'
  BY DEF RunInspect, BoxTyped, BoxInv, NameInv, AuthorityInItsGeneration, ClearedIsClean
<1>9. QED BY <1>5, <1>6, <1>7, <1>8, Rest DEF RunInspect

LEMMA ProjectStep == ASSUME RoomInv, NEW c \in Callers, Project(c) PROVE RoomInv'
<1> USE DEF RoomInv, RoomTypes
<1>0. caller[c].pc \in InRun
  BY DEF Project, InRun
<1>1. PICK g \in Gens, q \in Launched : /\ g = caller[c].gen /\ q = caller[c].run
                                    /\ q \notin cleared /\ bound[q] = g
  BY <1>0, CallerFacts
<1>2. box[g] \in BoxRow /\ box[g].st = "running" /\ box[g].strict /\ named = g
  BY <1>1 DEF Project, Matches, StrictOptions, Inspected, BoxTyped
<1> DEFINE new == [box[g] EXCEPT !.sess = {}, !.holds = {q} \cup (box[g].holds \ box[g].sess)]
<1>3. /\ new \in BoxRow /\ new.st = "running" /\ new.strict /\ new.sess = {}
      /\ new.holds = {q} \cup (box[g].holds \ box[g].sess)
  BY <1>1, <1>2 DEF BoxRow
<1>4. box' = [box EXCEPT ![g] = new]
  BY <1>1 DEF Project, BoxTyped
<1> HIDE DEF new
<1>5. box'[g] = new /\ \A o \in Gens : o # g => box'[o] = box[o]
  BY <1>4 DEF BoxTyped
<1>6. BoxTyped' /\ NameInv' /\ (AllStrict => AllStrict')
  <2>0. image' = image
    BY DEF Project
  <2>1. BoxTyped'
    BY <1>1, <1>3, <1>4, <2>0 DEF BoxTyped
  <2>2. "running" \in Live
    BY DEF Live
  <2>3. named' = named
    BY DEF Project
  <2>4. NameInv'
    <3> SUFFICES ASSUME NEW o \in Gens
                 PROVE  /\ box'[o].st \in Live => named = o
                        /\ box'[o].st \notin Live => box'[o].holds = {} /\ box'[o].sess = {}
      BY <2>3 DEF NameInv
    <3>1. CASE o = g
      BY <1>2, <1>3, <1>5, <2>2, <3>1
    <3>2. CASE o # g
      BY <1>5, <3>2 DEF NameInv
    <3>3. QED BY <3>1, <3>2
  <2>5. AllStrict => AllStrict'
    BY <1>2, <1>3, <1>5, <2>2 DEF AllStrict
  <2>6. QED BY <2>1, <2>4, <2>5
<1>7. AuthorityInItsGeneration'
  BY <1>1, <1>3, <1>5 DEF AuthorityInItsGeneration, Project
<1>8. ClearedIsClean'
  BY <1>1, <1>3, <1>5 DEF ClearedIsClean, Project
<1>9. CallTyped' /\ LaunchInv' /\ StrictInv'
  <2>1. PICK pc \in InRun : pc = "projected" /\ pc \notin {"seed", "ready"} /\ caller[c].pc # "idle"
    BY <1>0 DEF InRun
  <2>2. caller' = [caller EXCEPT ![c].pc = pc] /\ UNCHANGED <<bound, cleared, seeded>>
    BY <2>1 DEF Project, Goes
  <2>3. QED BY <1>0, <1>6, <2>1, <2>2, CallGoesOn
<1>10. QED BY <1>6, <1>7, <1>8, <1>9, Rest DEF Project, BoxInv

LEMMA RunSteps ==
    ASSUME RoomInv, NEW c \in Callers,
           AfterProjection(c) \/ StartSession(c) \/ Publish(c) \/ WaitEnds(c)
    PROVE  RoomInv'
<1> USE DEF RoomInv, RoomTypes
<1>0. caller[c].pc \in InRun /\ caller[c].pc # "idle" /\ {"session", "publish", "wait", "clear"} \subseteq InRun
  BY DEF AfterProjection, StartSession, Publish, WaitEnds, InRun
<1>1. UNCHANGED <<named, image, bound, cleared, seeded>>
  BY DEF AfterProjection, StartSession, Publish, WaitEnds
<1>2. BoxTyped' /\ BoxInv' /\ (AllStrict => AllStrict')
  <2>1. CASE UNCHANGED box
    BY <1>1, <2>1 DEF BoxTyped, BoxInv, NameInv, AuthorityInItsGeneration, ClearedIsClean, AllStrict
  <2>2. CASE /\ StartSession(c) /\ named # 0 /\ caller[c].run \in box[named].holds
             /\ box' = [box EXCEPT ![named].sess = @ \cup {caller[c].run}]
    <3> DEFINE new == [box[named] EXCEPT !.sess = box[named].sess \cup {caller[c].run}]
    <3>1. named \in Gens /\ box[named] \in BoxRow
      BY <2>2 DEF BoxTyped
    <3>2. box[named].st \notin Live => box[named].holds = {}
      BY <3>1 DEF NameInv
    <3>3. Lesser(named, new)
      BY <2>2, <3>1, <3>2 DEF Lesser, BoxRow
    <3>4. box' = [box EXCEPT ![named] = new]
      BY <2>2, <3>1 DEF BoxTyped
    <3> HIDE DEF new
    <3>5. QED BY <1>1, <3>1, <3>3, <3>4, LesserKeeps
  <2>3. CASE Publish(c) /\ named # 0 /\ box[named].st = "running"
             /\ \E scrubbed \in BOOLEAN : box' = BoxStopped(named, {caller[c].run}, scrubbed)
    <3>1. PICK scrubbed \in BOOLEAN : box' = BoxStopped(named, {caller[c].run}, scrubbed)
      BY <2>3
    <3> DEFINE runs == {caller[c].run}
               new == [box[named] EXCEPT !.sess = box[named].sess \ runs,
                                         !.holds = box[named].holds \ (IF scrubbed THEN runs ELSE {})]
    <3>2. named \in Gens /\ box[named] \in BoxRow /\ "running" \in Live
      BY <2>3 DEF BoxTyped, Live
    <3>3. Lesser(named, new)
      BY <2>3, <3>2 DEF Lesser, BoxRow
    <3>4. box' = [box EXCEPT ![named] = new]
      BY <3>1, <3>2 DEF BoxTyped, BoxStopped
    <3> HIDE DEF new
    <3>5. QED BY <1>1, <3>2, <3>3, <3>4, LesserKeeps
  <2>4. QED BY <2>1, <2>2, <2>3 DEF AfterProjection, StartSession, Publish, WaitEnds
<1>3. CallTyped' /\ LaunchInv' /\ StrictInv'
  <2>1. ASSUME NEW pc \in {"session", "publish", "wait", "clear"}, Goes(c, pc)
        PROVE  CallTyped' /\ LaunchInv' /\ StrictInv'
    BY <1>0, <1>1, <1>2, <2>1, CallGoesOn DEF Goes
  <2>2. CASE caller' = [caller EXCEPT ![c] = NoCall]
    BY <1>1, <1>2, <2>2, GoesIdle
  <2>3. QED BY <2>1, <2>2 DEF AfterProjection, StartSession, Publish, WaitEnds
<1>4. QED BY <1>1, <1>2, <1>3, Rest

LEMMA ClearStep == ASSUME RoomInv, NEW c \in Callers, ClearAuthority(c) PROVE RoomInv'
<1> USE DEF RoomInv, RoomTypes
<1>0. caller[c].pc \in InRun
  BY DEF ClearAuthority, InRun
<1>1. PICK g \in Gens, q \in Launched : g = caller[c].gen /\ q = caller[c].run /\ bound[q] = g /\ c = "launch"
  BY <1>0, CallerFacts
<1>2. UNCHANGED <<named, image, bound, seeded>> /\ caller' = [caller EXCEPT ![c] = NoCall]
  BY DEF ClearAuthority
<1>3. box[g] \in BoxRow /\ "running" \in Live
  BY DEF BoxTyped, Live
<1>4. \A o \in Gens : o # g => q \notin box[o].holds
  BY <1>1 DEF AuthorityInItsGeneration
<1>5. /\ BoxTyped' /\ BoxInv' /\ (AllStrict => AllStrict')
      /\ cleared' = cleared \/ cleared' = cleared \cup {q}
  <2>1. CASE UNCHANGED <<box, cleared>>
    BY <1>2, <2>1 DEF BoxTyped, BoxInv, NameInv, AuthorityInItsGeneration, ClearedIsClean, AllStrict
  <2>2. CASE named # g /\ cleared' = cleared \cup {q} /\ UNCHANGED box
    <3>1. q \notin box[g].holds
      BY <2>2 DEF NameInv
    <3>2. ClearedIsClean'
      BY <1>4, <2>2, <3>1 DEF ClearedIsClean
    <3>3. QED
      BY <1>2, <2>2, <3>2 DEF BoxTyped, BoxInv, NameInv, AuthorityInItsGeneration, AllStrict
  <2>3. CASE /\ named = g /\ box[g].st = "running" /\ box' = [box EXCEPT ![g].holds = @ \ {q}]
             /\ cleared' = cleared \cup {q}
    <3> DEFINE new == [box[g] EXCEPT !.holds = box[g].holds \ {q}]
    <3>1. new \in BoxRow /\ new.st = "running" /\ new.strict = box[g].strict /\ new.sess = box[g].sess
          /\ new.holds = box[g].holds \ {q}
      BY <1>3, <2>3 DEF BoxRow
    <3>2. box' = [box EXCEPT ![g] = new]
      BY <2>3 DEF BoxTyped
    <3> HIDE DEF new
    <3>3. box'[g] = new /\ \A o \in Gens : o # g => box'[o] = box[o]
      BY <3>2 DEF BoxTyped
    <3>4. BoxTyped'
      BY <1>2, <3>1, <3>2 DEF BoxTyped
    <3>5. NameInv' /\ (AllStrict => AllStrict')
      BY <1>2, <1>3, <2>3, <3>1, <3>3 DEF NameInv, AllStrict
    <3>6. AuthorityInItsGeneration'
      BY <1>2, <3>1, <3>3 DEF AuthorityInItsGeneration
    <3>7. ClearedIsClean'
      BY <1>4, <2>3, <3>1, <3>3 DEF ClearedIsClean
    <3>8. QED BY <2>3, <3>4, <3>5, <3>6, <3>7 DEF BoxInv
  <2>4. QED BY <1>1, <2>1, <2>2, <2>3 DEF ClearAuthority
<1>6. CallTyped' /\ LaunchInv' /\ StrictInv'
  BY <1>1, <1>2, <1>5, GoesIdle
<1>7. QED BY <1>1, <1>2, <1>5, <1>6, Rest

\* The release knows a generation that had the name.
RelTyped == rel.gen \in {0} \cup Gens

LEMMA ReleaseTyped == ASSUME RoomInv, RelTyped, [CRNext]_cvars PROVE RelTyped'
<1>1. CASE rel' = [pc |-> "idle", gen |-> 0]
  BY <1>1 DEF RelTyped
<1>2. CASE ReleaseCapture
  BY <1>2 DEF ReleaseCapture, RelTyped, RoomInv, RoomTypes
<1>3. CASE \E pc \in {"remove", "network"} : rel' = [rel EXCEPT !.pc = pc]
  BY <1>3 DEF RelTyped
<1>4. CASE UNCHANGED rel
  BY <1>4 DEF RelTyped
<1>5. QED
  BY <1>1, <1>2, <1>3, <1>4
  DEF CRNext, cvars, Launch, Attach, Probe, Replace, Replaced, Create, Boundary, SeedBootstrap, PostSeed,
      StartBox, Bind, RunInspect, Project, AfterProjection, StartSession, Publish, WaitEnds, ClearAuthority,
      Abort, ReleaseStop, ReleasePause, ReleaseRemove, ReleaseNetwork, ReleaseAbort, ScriptEnds,
      ContainerExits, ProxiesRecreated, ProxiesBack, RepairNetworks, UpgradeImage

LEMMA QuietStep ==
    ASSUME RoomInv, UNCHANGED <<box, named, seeded, caller, bound, cleared>>,
           image' = image \/ image' = image + 1
    PROVE  RoomInv'
<1>1. BoxTyped' /\ BoxInv' /\ (AllStrict => AllStrict')
  BY DEF RoomInv, RoomTypes, BoxTyped, BoxInv, NameInv, AuthorityInItsGeneration, ClearedIsClean, AllStrict
<1>2. QED BY <1>1, QuietCallers, Rest DEF RoomInv, RoomTypes

LEMMA RoomStep == ASSUME RoomInv, RelTyped, [CRNext]_cvars PROVE RoomInv'
<1>1. CASE ReleaseCapture \/ ReleaseNetwork \/ ReleaseAbort \/ ProxiesRecreated \/ ProxiesBack
           \/ RepairNetworks \/ UpgradeImage \/ UNCHANGED cvars
  BY <1>1, QuietStep
  DEF ReleaseCapture, ReleaseNetwork, ReleaseAbort, ProxiesRecreated, ProxiesBack, RepairNetworks,
      UpgradeImage, cvars
<1>2. CASE Launch \/ Attach
  BY <1>2, EntrySteps
<1>3. ASSUME NEW c \in Callers,
             \/ Probe(c) \/ Replace(c) \/ Replaced(c) \/ Create(c) \/ Boundary(c)
             \/ SeedBootstrap(c) \/ PostSeed(c) \/ StartBox(c) \/ Bind(c) \/ RunInspect(c)
             \/ Project(c) \/ AfterProjection(c) \/ StartSession(c) \/ Publish(c)
             \/ WaitEnds(c) \/ ClearAuthority(c) \/ Abort(c)
      PROVE  RoomInv'
  BY <1>3, BeforeSteps, RemovalSteps, CreateStep, RoomStartStep, BindStep, RunInspectStep, ProjectStep,
     RunSteps, ClearStep, AbortStep
<1>4. CASE ReleaseStop \/ ReleasePause \/ ReleaseRemove \/ ScriptEnds \/ ContainerExits
  BY <1>4, BoxSteps, RemovalSteps DEF RelTyped
<1>5. QED BY <1>1, <1>2, <1>3, <1>4 DEF CRNext

\* A run's authority is only ever in the container generation that its grant names, one that
\* attests the policy; once its removal is confirmed it is in none; and no container of the time
\* before the clean room sees a seeded home.  For every number of runs, generations, image
\* upgrades and outages of the proxies.
THEOREM AuthorityStaysInItsRoom == CRSpec => []CleanRoomHolds
<1>1. CRInit => RoomInv /\ RelTyped
  <2>1. CRInit => RelTyped
    BY DEF CRInit, RelTyped
  <2>2. QED BY <2>1, RoomInit, RoomsAssumption
<1>2. RoomInv /\ RelTyped /\ [CRNext]_cvars => (RoomInv /\ RelTyped)'
  BY RoomStep, ReleaseTyped
<1>3. RoomInv => CleanRoomHolds
  <2>1. ASSUME RoomInv PROVE LegacyNeverSees
    BY <2>1 DEF RoomInv, StrictInv, AllStrict, LegacyNeverSees
  <2>2. QED BY <2>1 DEF RoomInv, CleanRoomHolds
<1>4. QED BY <1>1, <1>2, <1>3, PTL DEF CRSpec
=============================================================================
