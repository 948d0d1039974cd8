-------------------------- MODULE ProviderRequests --------------------------
\* One conversation of the model provider (conversation_provider.py, store.py): a
\* chat completion is a durable request, its native run authors the answer, a
\* quota failure moves the same request to a fallback run, and a client's Stop
\* ends a whole family of requests.
\*
\* Start and Stop hold _start_lock, a synchronisation holds _sync_lock; the start
\* of a fallback, the detached reconciliation and the runs themselves hold neither.
\* The request states queued and running are both "open": no decision tells them
\* apart.  All requests are of one owner and one session.  How a run gets from
\* queued to its end is the matter of HostRuns and RunDispatch.
EXTENDS Naturals, FiniteSets

CONSTANTS
    Requests,    \* idempotency keys
    Base,        \* the requests that are their family's base, not graph children
    Family,      \* the participant turn that one Stop ends
    Turn,        \* the advancement key: the logical turn that a request answers
    Armed,       \* requests with a fallback model
    MaxRuns,     \* bound on native runs of a request
    MaxFaults    \* bound on crashes, failed starts and reopened requests

ASSUME ProviderAssumption ==
    /\ Base \subseteq Requests /\ Armed \subseteq Requests
    /\ DOMAIN Family = Requests /\ DOMAIN Turn = Requests
    /\ MaxRuns \in Nat \ {0} /\ MaxFaults \in Nat

VARIABLES
    req,       \* provider_requests: state, run_id, fallback_state, admission_state
    nat,       \* the native runs, those of each request numbered
    advanced,  \* accepted_advancement_keys of the session
    stopped,   \* families with a stop tombstone
    cl,        \* the call that holds _start_lock
    sy,        \* the synchronisation that holds _sync_lock
    fbk,       \* the thread that starts a fallback, per request
    det,       \* the request that the detached reconciliation is failing
    resumed,   \* requests that a restart handed to the detached reconciliation
    faults

pvars == <<req, nat, advanced, stopped, cl, sy, fbk, det, resumed, faults>>

RunIds == 1 .. MaxRuns

NoRequest == "no request"

Terminal == {"completed", "failed", "cancelled"}

\* How a run ended, as far as its request tells: "quota" is a structured quota
\* failure before any output, "empty" a completed run whose log has no response;
\* "failed" includes an involuntary interruption and a response that the saved
\* contract cannot parse, "cancelled" an interruption that was asked for.
Live == {"queued", "claimed", "running"}
Ended == {"completed", "empty", "failed", "quota", "cancelled"}

Families == {Family[q] : q \in Requests}

CallRow == [pc : {"idle", "attach", "cancel", "syncing", "act", "kill"},
            q : Requests \cup {NoRequest}, todo : SUBSET Requests,
            st : Terminal \cup {"none", "open"}, run : {0} \cup RunIds]
FreeCall == [pc |-> "idle", q |-> NoRequest, todo |-> {}, st |-> "none", run |-> 0]

SyncRow == [pc : {"idle", "commit", "advance"}, q : Requests \cup {NoRequest},
            run : {0} \cup RunIds, saw : Ended \cup {"none", "needs_input"},
            by : {"observer", "cancel"}]
FreeSync == [pc |-> "idle", q |-> NoRequest, run |-> 0, saw |-> "none", by |-> "observer"]

StarterRow == [pc : {"none", "claimed", "assigned"}, from : {0} \cup RunIds,
               run : {0} \cup RunIds, by : {"observer", "cancel"}]
NoStarter == [pc |-> "none", from |-> 0, run |-> 0, by |-> "observer"]

ProviderTypeOK ==
    /\ req \in [Requests -> [st : Terminal \cup {"none", "open"}, run : {0} \cup RunIds,
                             fb : {"none", "claimed", "started", "failed"}, acc : BOOLEAN]]
    /\ nat \in [Requests -> [RunIds -> Live \cup Ended \cup {"none", "needs_input"}]]
    /\ advanced \subseteq {Turn[q] : q \in Requests}
    /\ stopped \subseteq Families
    /\ cl \in CallRow /\ sy \in SyncRow
    /\ fbk \in [Requests -> StarterRow]
    /\ det \in Requests \cup {NoRequest}
    /\ resumed \subseteq Requests
    /\ faults \in 0 .. MaxFaults

Init ==
    /\ req = [q \in Requests |-> [st |-> "none", run |-> 0, fb |-> "none", acc |-> FALSE]]
    /\ nat = [q \in Requests |-> [n \in RunIds |-> "none"]]
    /\ advanced = {} /\ stopped = {}
    /\ cl = FreeCall /\ sy = FreeSync
    /\ fbk = [q \in Requests |-> NoStarter]
    /\ det = NoRequest /\ resumed = {}
    /\ faults = 0

-----------------------------------------------------------------------------
\* start

\* The requests that reserve the turn of q: open, or completed and not accepted.
Reserving(q) == {p \in Requests : /\ Turn[p] = Turn[q]
                                  /\ req[p].st \in {"open", "completed"} /\ ~req[p].acc}

\* A graph child continues a turn that its family has already answered.
Continues(q) ==
    /\ q \notin Base
    /\ \E p \in Requests : /\ Family[p] = Family[q] /\ Turn[p] = Turn[q]
                           /\ req[p].st = "completed" /\ req[p].acc

\* No tombstone, no conflicting reservation, and the turn is new or continued.
Admits(q) ==
    /\ Family[q] \notin stopped
    /\ Reserving(q) = {}
    /\ Turn[q] \notin advanced \/ Continues(q)

\* create_provider_request, in a call of start.
Create(q) ==
    /\ cl.pc = "idle" /\ req[q].st = "none"
    /\ Admits(q)
    /\ req' = [req EXCEPT ![q].st = "open"]
    /\ cl' = [FreeCall EXCEPT !.pc = "attach", !.q = q]
    /\ UNCHANGED <<nat, advanced, stopped, sy, fbk, det, resumed, faults>>

\* create_and_attach_provider_run, in the call of start that created the request.
Attach ==
    /\ cl.pc = "attach" /\ req[cl.q].st = "open"
    /\ req' = [req EXCEPT ![cl.q].run = 1]
    /\ nat' = [nat EXCEPT ![cl.q][1] = "queued"]
    /\ cl' = FreeCall
    /\ UNCHANGED <<advanced, stopped, sy, fbk, det, resumed, faults>>

\* assign_run raised, before or after it had attached the run.
StartFails(attached) ==
    /\ cl.pc = "attach" /\ faults < MaxFaults
    /\ req' = [req EXCEPT ![cl.q].st = "failed", ![cl.q].run = IF attached THEN 1 ELSE req[cl.q].run]
    /\ nat' = IF attached THEN [nat EXCEPT ![cl.q][1] = "queued"] ELSE nat
    /\ cl' = FreeCall
    /\ faults' = faults + 1
    /\ UNCHANGED <<advanced, stopped, sy, fbk, det, resumed>>

\* start of an idempotency key that exists, with a fresh grant: the request and its
\* waiting run are reopened together (reopen_direct_provider_needs_input).
Reopen(q) ==
    /\ cl.pc = "idle" /\ faults < MaxFaults
    /\ Family[q] \notin stopped
    /\ req[q].st = "failed" /\ req[q].fb = "none" /\ req[q].run # 0
    /\ nat[q][req[q].run] = "needs_input"
    /\ req' = [req EXCEPT ![q].st = "open"]
    /\ nat' = [nat EXCEPT ![q][req[q].run] = "queued"]
    /\ faults' = faults + 1
    /\ UNCHANGED <<advanced, stopped, cl, sy, fbk, det, resumed>>

-----------------------------------------------------------------------------
\* The native runs

\* A queued run is claimed, a claimed one invoked or refused its grant, and a
\* running one ends in one of the ways that a request tells apart.
RunStep(q, n) ==
    /\ \/ nat[q][n] = "queued" /\ nat' = [nat EXCEPT ![q][n] = "claimed"]
       \/ nat[q][n] = "claimed"
          /\ \E s \in {"running", "needs_input"} : nat' = [nat EXCEPT ![q][n] = s]
       \/ nat[q][n] = "running"
          /\ \E s \in Ended : nat' = [nat EXCEPT ![q][n] = s]
    /\ UNCHANGED <<req, advanced, stopped, cl, sy, fbk, det, resumed, faults>>

-----------------------------------------------------------------------------
\* _sync

\* Mutant of Unsynced: a completed request is taken for settled.
UnsyncedOpen(q) ==
    /\ req[q].run # 0 /\ req[q].fb # "claimed"
    /\ nat[q][req[q].run] \in Ended \cup {"needs_input"}
    /\ req[q].st = "open"

\* A synchronisation of q changes something: its run has stopped and the request
\* is not settled, or it is completed and its turn not yet accepted.
Unsynced(q) ==
    /\ req[q].run # 0 /\ req[q].fb # "claimed"
    /\ nat[q][req[q].run] \in Ended \cup {"needs_input"}
    /\ req[q].st = "open" \/ (req[q].st = "completed" /\ ~req[q].acc)

\* The request and its run are read; a completed run without a response event is
\* turned into a failed one.
SyncRead(q, by) ==
    LET n == req[q].run IN
    /\ sy.pc = "idle"
    /\ sy' = [pc |-> "commit", q |-> q, run |-> n, saw |-> nat[q][n], by |-> by]
    /\ nat' = IF nat[q][n] = "empty" THEN [nat EXCEPT ![q][n] = "failed"] ELSE nat

\* Polling, streaming, the run's own end, the retry tick or a restart.
Observe(q) ==
    /\ Unsynced(q) /\ SyncRead(q, "observer")
    /\ UNCHANGED <<req, advanced, stopped, cl, fbk, det, resumed, faults>>

\* Mutant of FinalState: a run that completed without a response is an answer.
FinalStateEmpty(s) ==
    CASE s \in {"completed", "empty"} -> "completed"
      [] s = "cancelled" -> "cancelled"
      [] OTHER -> "failed"

\* The state that the end s of a run gives its request.
FinalState(s) ==
    CASE s = "completed" -> "completed"
      [] s = "cancelled" -> "cancelled"
      [] OTHER -> "failed"

\* Mutant of Eligible: a run that waits for a grant is replaced as well.
EligibleWaiting(q, s) == s \in {"quota", "needs_input"} /\ q \in Armed /\ req[q].fb = "none"

\* _serial_fallback_eligible
Eligible(q, s) == s = "quota" /\ q \in Armed /\ req[q].fb = "none"

\* commit_provider_request_terminal accepts its update: the same run, no fallback
\* being started, and still open.
CommitFits(q, n) == req[q].st = "open" /\ req[q].run = n /\ req[q].fb # "claimed"

\* _sync returns the row r of q: a Stop that was synchronising goes on.
Resume(by, r) ==
    cl' = IF by = "cancel" THEN [cl EXCEPT !.pc = "act", !.st = r.st, !.run = r.run] ELSE cl

\* claim_provider_request_fallback: one observer is elected, and leaves the lock.
ClaimFallback ==
    LET q == sy.q IN
    /\ sy.pc = "commit" /\ Eligible(q, sy.saw)
    /\ IF CommitFits(q, sy.run)
       THEN /\ req' = [req EXCEPT ![q].fb = "claimed"]
            /\ fbk' = [fbk EXCEPT ![q] = [pc |-> "claimed", from |-> sy.run, run |-> 0, by |-> sy.by]]
            /\ UNCHANGED cl
       ELSE Resume(sy.by, req[q]) /\ UNCHANGED <<req, fbk>>
    /\ sy' = FreeSync
    /\ UNCHANGED <<nat, advanced, stopped, det, resumed, faults>>

\* The terminal commit; a completed request goes on to its session.
Commit ==
    LET q == sy.q
        r == IF CommitFits(q, sy.run) THEN [req[q] EXCEPT !.st = FinalState(sy.saw)] ELSE req[q]
    IN /\ sy.pc = "commit" /\ ~Eligible(q, sy.saw)
       /\ req' = [req EXCEPT ![q] = r]
       /\ IF r.st = "completed"
          THEN sy' = [sy EXCEPT !.pc = "advance"] /\ UNCHANGED cl
          ELSE sy' = FreeSync /\ Resume(sy.by, r)
       /\ UNCHANGED <<nat, advanced, stopped, fbk, det, resumed, faults>>

\* Mutant of Advancement: the request is taken for the turn that it answers.
AdvancementRequest(q) == q

Advancement(q) == Turn[q]

\* advance_provider_session_history, once per advancement key; it refuses a request
\* that is no longer completed.
Advance ==
    LET q == sy.q
        ok == req[q].st = "completed"
        r == IF ok THEN [req[q] EXCEPT !.acc = TRUE] ELSE req[q]
    IN /\ sy.pc = "advance"
       /\ req' = [req EXCEPT ![q] = r]
       /\ advanced' = IF ok THEN advanced \cup {Advancement(q)} ELSE advanced
       /\ sy' = FreeSync /\ Resume(sy.by, r)
       /\ UNCHANGED <<nat, stopped, fbk, det, resumed, faults>>

-----------------------------------------------------------------------------
\* _start_serial_fallback, outside both locks

\* The new worker is terminated with whatever run it has.
Retire(q, n) == nat' = IF n # 0 /\ nat[q][n] \in Live \cup {"needs_input"}
                       THEN [nat EXCEPT ![q][n] = "cancelled"] ELSE nat

\* A run of its own on the fallback model's worker.
AssignFallback(q) ==
    \E n \in RunIds :
        /\ fbk[q].pc = "claimed" /\ nat[q][n] = "none"
        /\ \A m \in 1 .. n - 1 : nat[q][m] # "none"
        /\ nat' = [nat EXCEPT ![q][n] = "queued"]
        /\ fbk' = [fbk EXCEPT ![q].pc = "assigned", ![q].run = n]
        /\ UNCHANGED <<req, advanced, stopped, cl, sy, det, resumed, faults>>

\* Mutant of StartFits: the state of the request is not looked at.
StartFitsAny(q) == req[q].fb = "claimed" /\ req[q].run = fbk[q].from

\* start_provider_request_fallback takes the claim of the same run, or the new run
\* is cancelled.
StartFits(q) == req[q].st = "open" /\ req[q].fb = "claimed" /\ req[q].run = fbk[q].from

StartFallback(q) ==
    LET r == IF StartFits(q) THEN [req[q] EXCEPT !.fb = "started", !.run = fbk[q].run] ELSE req[q]
    IN /\ fbk[q].pc = "assigned"
       /\ req' = [req EXCEPT ![q] = r]
       /\ IF StartFits(q) THEN UNCHANGED nat ELSE Retire(q, fbk[q].run)
       /\ fbk' = [fbk EXCEPT ![q] = NoStarter]
       /\ Resume(fbk[q].by, r)
       /\ UNCHANGED <<advanced, stopped, sy, det, resumed, faults>>

\* The fallback has no grant, or its worker or its run could not be made.  An error of the
\* worker's termination is swallowed, and its run, if it has one, is left as it is.
FallbackFails(q) ==
    LET r == IF req[q].st = "open" THEN [req[q] EXCEPT !.st = "failed", !.fb = "failed"] ELSE req[q]
    IN /\ fbk[q].pc # "none" /\ faults < MaxFaults
       /\ req' = [req EXCEPT ![q] = r]
       /\ Retire(q, fbk[q].run) \/ UNCHANGED nat
       /\ fbk' = [fbk EXCEPT ![q] = NoStarter]
       /\ Resume(fbk[q].by, r)
       /\ faults' = faults + 1
       /\ UNCHANGED <<advanced, stopped, sy, det, resumed>>

-----------------------------------------------------------------------------
\* cancel and cancel_by_idempotency

\* A failed request whose run still waits for input.
Resumable(st, q, n) == st = "failed" /\ n # 0 /\ nat[q][n] = "needs_input"

Cancel(q) ==
    /\ cl.pc = "idle" /\ req[q].st # "none"
    /\ cl' = [FreeCall EXCEPT !.pc = "cancel", !.todo = {q}]
    /\ UNCHANGED <<req, nat, advanced, stopped, sy, fbk, det, resumed, faults>>

\* The tombstone first, then every request of the family that is not settled.
StopFamily(f) ==
    LET todo == {q \in Requests : /\ Family[q] = f
                                  /\ \/ req[q].st \in {"open", "cancelled"}
                                     \/ Resumable(req[q].st, q, req[q].run)}
    IN /\ cl.pc = "idle" /\ f \notin stopped
       /\ stopped' = stopped \cup {f}
       /\ cl' = IF todo = {} THEN FreeCall ELSE [FreeCall EXCEPT !.pc = "cancel", !.todo = todo]
       /\ UNCHANGED <<req, nat, advanced, sy, fbk, det, resumed, faults>>

\* The request is synchronised first.
CancelSync(q) ==
    /\ cl.pc = "cancel" /\ q \in cl.todo
    /\ IF Unsynced(q)
       THEN /\ SyncRead(q, "cancel")
            /\ cl' = [cl EXCEPT !.pc = "syncing", !.q = q, !.todo = cl.todo \ {q}]
       ELSE /\ sy.pc = "idle"
            /\ cl' = [cl EXCEPT !.pc = "act", !.q = q, !.todo = cl.todo \ {q},
                                !.st = req[q].st, !.run = req[q].run]
            /\ UNCHANGED <<nat, sy>>
    /\ UNCHANGED <<req, advanced, stopped, fbk, det, resumed, faults>>

\* The next request of the family, or the end of the call.
NextCall == IF cl.todo = {} THEN FreeCall ELSE [FreeCall EXCEPT !.pc = "cancel", !.todo = cl.todo]

\* The row that the synchronisation returned decides, and the state is written
\* without looking at it again.
CancelAct ==
    LET settled == cl.st \in Terminal /\ ~Resumable(cl.st, cl.q, cl.run) IN
    /\ cl.pc = "act"
    /\ cl' = IF settled /\ cl.st # "cancelled" THEN NextCall ELSE [cl EXCEPT !.pc = "kill"]
    /\ req' = IF settled THEN req ELSE [req EXCEPT ![cl.q].st = "cancelled"]
    /\ UNCHANGED <<nat, advanced, stopped, sy, fbk, det, resumed, faults>>

\* _cancel_request_run, of the run that row named: a queued, running or waiting run
\* is cancelled, a claimed one is not.
CancelRun ==
    LET q == cl.q
        n == cl.run
        hit == /\ n # 0
               /\ \/ nat[q][n] \in {"queued", "running"}
                  \/ nat[q][n] = "needs_input" /\ req[q].run = n /\ req[q].st = "cancelled"
    IN /\ cl.pc = "kill"
       /\ nat' = IF hit THEN [nat EXCEPT ![q][n] = "cancelled"] ELSE nat
       /\ cl' = NextCall
       /\ UNCHANGED <<req, advanced, stopped, sy, fbk, det, resumed, faults>>

-----------------------------------------------------------------------------
\* Restart

\* Everything in memory is lost; the new process reconciles the open requests.
Crash ==
    /\ faults < MaxFaults /\ faults' = faults + 1
    /\ cl' = FreeCall /\ sy' = FreeSync
    /\ fbk' = [q \in Requests |-> NoStarter]
    /\ det' = NoRequest
    /\ resumed' = {q \in Requests : req[q].st = "open"}
    /\ UNCHANGED <<req, nat, advanced, stopped>>

\* _reconcile_detached_request_once of a request that never got a run reads it, and
\* then fails it whatever has happened since.
DetachedRead(q) ==
    /\ q \in resumed /\ det = NoRequest
    /\ req[q].st = "open" /\ req[q].run = 0
    /\ det' = q
    /\ UNCHANGED <<req, nat, advanced, stopped, cl, sy, fbk, resumed, faults>>

DetachedFail ==
    /\ det # NoRequest
    /\ req' = [req EXCEPT ![det].st = "failed"]
    /\ det' = NoRequest /\ resumed' = resumed \ {det}
    /\ UNCHANGED <<nat, advanced, stopped, cl, sy, fbk, faults>>

-----------------------------------------------------------------------------
Next ==
    \/ \E q \in Requests : \/ Create(q) \/ Reopen(q) \/ Observe(q)
                           \/ AssignFallback(q) \/ StartFallback(q) \/ FallbackFails(q)
                           \/ Cancel(q) \/ CancelSync(q) \/ DetachedRead(q)
    \/ \E q \in Requests, n \in RunIds : RunStep(q, n)
    \/ \E attached \in BOOLEAN : StartFails(attached)
    \/ \E f \in Families : StopFamily(f)
    \/ Attach \/ ClaimFallback \/ Commit \/ Advance \/ CancelAct \/ CancelRun
    \/ Crash \/ DetachedFail

ProviderSpec == Init /\ [][Next]_pvars

\* Threads finish their calls and runs end.  A pending request is listed by every
\* retry tick and at every restart, so it is not passed over for ever.
ProviderFairness ==
    /\ WF_pvars(Attach) /\ WF_pvars(CancelAct) /\ WF_pvars(CancelRun) /\ WF_pvars(DetachedFail)
    /\ WF_pvars(ClaimFallback) /\ WF_pvars(Commit) /\ WF_pvars(Advance)
    /\ \A q \in Requests :
          /\ SF_pvars(Observe(q)) /\ SF_pvars(CancelSync(q)) /\ WF_pvars(DetachedRead(q))
          /\ WF_pvars(AssignFallback(q)) /\ WF_pvars(StartFallback(q))
          /\ \A n \in RunIds : WF_pvars(RunStep(q, n))

FairProviderSpec == ProviderSpec /\ ProviderFairness

-----------------------------------------------------------------------------
\* Properties

\* Two native runs never author the same request at once, whatever observers see
\* the failed run, and however a crash cuts off the start of the fallback.
OneAuthor ==
    \A q \in Requests :
        Cardinality({n \in RunIds : nat[q][n] \in Live \cup {"needs_input"}}) <= 1

\* A completed request was answered by the run that it names.
CompletedIsAnswered ==
    \A q \in Requests : req[q].st = "completed" =>
        /\ req[q].run # 0
        /\ nat[q][req[q].run] = "completed"

Orphaned(q) == req[q].fb = "claimed" /\ fbk[q].pc = "none"

\* Every request is settled, and the turn of a completed one accepted by its
\* session, unless the thread that was starting its fallback died.
SettlesOrOrphaned ==
    \A q \in Requests : req[q].st = "open" ~>
        (\/ req[q].st \in {"failed", "cancelled"} \/ req[q].acc \/ Orphaned(q))

\* A Stop is final: a cancelled request never completes, is never opened again and
\* never gets another run, whoever was synchronising it or starting its fallback;
\* and a family with a tombstone admits no request and reopens none.
StopHolds ==
    [][\A q \in Requests :
          /\ req[q].st = "cancelled" =>
                req'[q].st \in {"cancelled", "failed"} /\ req'[q].run = req[q].run
          /\ Family[q] \in stopped /\ req[q].st # "open" => req'[q].st # "open"]_pvars
=============================================================================
