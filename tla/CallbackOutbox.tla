--------------------------- MODULE CallbackOutbox ---------------------------
(***************************************************************************)
(* How the result of a run reaches its receiver: the tables                *)
(* callback_outbox and terminal_callback_reconciliations, the threads that *)
(* build and deliver callbacks (service.py), and the receiver's monotonic  *)
(* compare-and-set (accept_terminal_callback_result).                      *)
(*                                                                         *)
(* A terminal result carries a revision that a database trigger advances   *)
(* whenever a field of the result changes.  A callback row is written once *)
(* per identity (run, revision, content) and only its delivery columns     *)
(* move afterwards.  Store methods are one transaction each; a sender or   *)
(* an emitter is a thread that calls several of them, with everything else *)
(* free to happen in between.                                              *)
(*                                                                         *)
(* The ledger (HostRuns) is abstracted to the steps that change a result:  *)
(* a run opens, finishes, and a finished result may be amended.            *)
(***************************************************************************)
EXTENDS Naturals

CONSTANTS
    Runs,           \* the runs of one delegation (one worker)
    Notices,        \* non-terminal events of a run (started, paused, ...)
    Senders,        \* delivery threads
    Emitters,       \* threads that build a terminal callback
    Contracts,      \* versions of the worker's callback contract, in their order
    Usable,         \* the contracts with an endpoint and a complete context
    Tries,          \* GLASSHIVE_CALLBACK_RETRY_ATTEMPTS: posts per delivery
    MaxTotal,       \* GLASSHIVE_CALLBACK_MAX_TOTAL_ATTEMPTS
    MaxRecoveries,  \* bound on the replays that a receiver asks for
    MaxFaults       \* bound on crashes and on leases that expire under a sender

ASSUME OutboxAssumption ==
    /\ Tries \in Nat \ {0} /\ MaxTotal \in Nat \ {0}
    /\ MaxRecoveries \in Nat /\ MaxFaults \in Nat
    /\ Usable \subseteq Contracts /\ Contracts \subseteq Nat \ {0}

VARIABLES
    result,       \* runs: the terminal result and its revision
    outbox,       \* callback_outbox
    unavailable,  \* terminal_callback_reconciliations, status 'unavailable'
    contract,     \* the worker's current callback contract
    sender,       \* the delivery threads
    emitter,      \* the threads inside _emit_callback
    receiver,     \* terminal_callback_results, on the receiving side
    heard,        \* the notices and observations that reached the receiver
    faults,       \* faults so far
    published     \* history: every <<revision, content>> a run ever had

ovars == <<result, outbox, unavailable, contract, sender, emitter, receiver,
           heard, faults, published>>

-----------------------------------------------------------------------------
\* Row types

\* The content of a result; an amended result is again a failure or a completion
\* with other text.  StateOf is the run state that the content belongs to.
Bodies == {"completed", "failed", "amended"}
StateOf(b) == IF b = "completed" THEN "completed" ELSE "failed"
Revisions == 1 .. 2

ResultRow == [body : Bodies \cup {"none", "open"}, rev : {0} \cup Revisions]

TerminalIds == [kind : {"terminal", "observed"}, run : Runs, rev : Revisions, body : Bodies]
NoticeIds == [kind : {"notice"}, run : Runs, rev : {0}, body : Notices]
Ids == TerminalIds \cup NoticeIds

Statuses ==
    {"none", "pending", "delivering", "http_accepted", "dead_lettered", "superseded"}
OutboxRow == [st : Statuses, gen : Nat, att : Nat]

NoId == [kind |-> "none", run |-> 0, rev |-> 0, body |-> "none"]
Answers == {"none", "accepted", "superseded", "conflict", "error", "refused", "gone"}
SenderRow ==
    [pc : {"idle", "check", "post", "record"}, id : Ids \cup {NoId},
     gen : Nat, stored : Nat, tries : Nat, limit : Nat, answer : Answers]
NoSender ==
    [pc |-> "idle", id |-> NoId, gen |-> 0, stored |-> 0, tries |-> 0,
     limit |-> 0, answer |-> "none"]

EmitterRow ==
    [pc : {"idle", "read", "built"}, id : Ids \cup {NoId},
     contract : Contracts \cup {0}, reconcile : BOOLEAN]
NoEmitter ==
    [pc |-> "idle", id |-> NoId, contract |-> 0, reconcile |-> FALSE]

ReceiverRow == [rev : {0} \cup Revisions, body : Bodies \cup {"none"}]

OutboxTypeOK ==
    /\ result \in [Runs -> ResultRow]
    /\ outbox \in [Ids -> OutboxRow]
    /\ unavailable \subseteq Runs \X {"completed", "failed"} \X Contracts
    /\ contract \in Contracts
    /\ sender \in [Senders -> SenderRow]
    /\ emitter \in [Emitters -> EmitterRow]
    /\ receiver \in [Runs -> ReceiverRow]
    /\ heard \subseteq Ids
    /\ faults \in 0 .. MaxFaults
    /\ published \in [Runs -> SUBSET (Revisions \X Bodies)]

OutboxInit ==
    /\ result = [r \in Runs |-> [body |-> "none", rev |-> 0]]
    /\ outbox = [i \in Ids |-> [st |-> "none", gen |-> 0, att |-> 0]]
    /\ unavailable = {}
    /\ contract \in Contracts
    /\ sender = [s \in Senders |-> NoSender]
    /\ emitter = [e \in Emitters |-> NoEmitter]
    /\ receiver = [r \in Runs |-> [rev |-> 0, body |-> "none"]]
    /\ heard = {}
    /\ faults = 0
    /\ published = [r \in Runs |-> {}]

-----------------------------------------------------------------------------
\* The results of the runs

Terminal(r) == result[r].body \in Bodies
Active(r) == result[r].body = "open"

\* Mutant of NextRevision: every write of the row counts, not only a changed result.
NextRevisionAlways(old, body) == old.rev + 1

\* Mutant of NextRevision: a result that is amended in place keeps its revision.
NextRevisionOnce(old, body) ==
    IF body \in Bodies /\ old.body \notin Bodies THEN old.rev + 1 ELSE old.rev

\* trg_runs_terminal_result_revision_update: the revision after the row of a run
\* changed its content from old.body to body.
NextRevision(old, body) ==
    IF body \in Bodies /\ body # old.body THEN old.rev + 1 ELSE old.rev

SetResult(r, body) ==
    LET rev == NextRevision(result[r], body) IN
    /\ result' = [result EXCEPT ![r] = [body |-> body, rev |-> rev]]
    /\ published' = [published EXCEPT ![r] =
                        @ \cup IF body \in Bodies THEN {<<rev, body>>} ELSE {}]
    /\ UNCHANGED <<outbox, unavailable, contract, sender, receiver, heard, faults>>

OpenRun(r) ==
    /\ result[r].body = "none"
    /\ SetResult(r, "open")
    /\ UNCHANGED emitter

\* A terminal row is rewritten in place: the provider finds no response of a
\* completed run and fails it, or gives a failed run another explanation.
AmendResult(r) ==
    /\ result[r].body \in {"completed", "failed"}
    /\ SetResult(r, "amended")
    /\ UNCHANGED emitter

\* The worker's bootstrap bundle is edited: a contract is the digest of its text.
ChangeContract(c) ==
    /\ c > contract
    /\ contract' = c
    /\ UNCHANGED <<result, outbox, unavailable, sender, emitter, receiver, heard,
                   faults, published>>

-----------------------------------------------------------------------------
\* Rows of the outbox

\* The row's identity still names the run's durable result.  Rows that are not
\* canonical terminal callbacks carry no result and are always current.
IsCurrent(i) ==
    i.kind = "terminal" => result[i.run] = [body |-> i.body, rev |-> i.rev]

\* _insert_callback_intent_conn: INSERT OR IGNORE, so a replay rewrites nothing.
Insert(i) ==
    outbox' = [outbox EXCEPT ![i].st = IF @ = "none" THEN "pending" ELSE @]

\* The compare-and-set of every settling write: status, lease token, generation.
Owns(s) ==
    /\ outbox[sender[s].id].st = "delivering"
    /\ outbox[sender[s].id].gen = sender[s].gen

\* Mutant of Settle: the row is settled whoever holds it now.
SettleAnyway(s, st, n) ==
    outbox' = [outbox EXCEPT ![sender[s].id] = [@ EXCEPT !.st = st, !.att = @ + n]]

\* Settle the row of s with the attempts of this delivery.
Settle(s, st, n) ==
    LET i == sender[s].id
        row == [outbox[i] EXCEPT !.st = st, !.att = outbox[i].att + n]
    IN  outbox' = IF Owns(s) THEN [outbox EXCEPT ![i] = row] ELSE outbox

-----------------------------------------------------------------------------
\* Emission.  A thread reads the run (the finisher with delivery to follow, the
\* reconciler from list_terminal_runs_missing_callback_intent), builds the
\* payload, and writes the row with insert_terminal_callback_outbox_if_current.

\* _delegation_callback_state: the work is terminal when no other run is active.
WorkTerminal(r) == \A q \in Runs \ {r} : ~Active(q)

\* Mutant of HasSink: a callback of any revision will do.
HasSinkAnyRevision(r) ==
    \E i \in TerminalIds :
        outbox[i].st # "none" /\ i.run = r /\ StateOf(i.body) = StateOf(result[r].body)

\* list_terminal_runs_missing_callback_intent: the result has its callback row, or an
\* observation of the run.
HasSink(r) ==
    \E i \in TerminalIds :
        /\ outbox[i].st # "none" /\ i.run = r
        /\ StateOf(i.body) = StateOf(result[r].body)
        /\ \/ i.kind = "terminal" /\ i.rev = result[r].rev /\ i.body = result[r].body
           \/ i.kind = "observed"

MissingIntent(r) ==
    /\ Terminal(r)
    /\ ~HasSink(r)
    /\ <<r, StateOf(result[r].body), contract>> \notin unavailable

\* What an emitter holds after it read the run with the given result.
Snapshot(r, res, rec) ==
    [pc |-> "read", contract |-> contract, reconcile |-> rec,
     id |-> [kind |-> "terminal", run |-> r, rev |-> res.rev, body |-> res.body]]

\* A run ends; the thread that ended it goes on to emit the result, unless the
\* worker has no usable contract or the path that ended it does not report.
FinishRun(r) ==
    /\ Active(r)
    /\ \E b \in {"completed", "failed"} :
        /\ SetResult(r, b)
        /\ \/ \E e \in Emitters :
                /\ emitter[e].pc = "idle" /\ contract \in Usable
                /\ emitter' = [emitter EXCEPT ![e] =
                        Snapshot(r, [body |-> b, rev |-> NextRevision(result[r], b)], FALSE)]
           \/ UNCHANGED emitter

\* _reconcile_terminal_callback_intents, first half.
BeginReconcile(e, r) ==
    /\ emitter[e].pc = "idle"
    /\ MissingIntent(r)
    /\ emitter' = [emitter EXCEPT ![e] = Snapshot(r, result[r], TRUE)]
    /\ UNCHANGED <<result, outbox, unavailable, contract, sender, receiver, heard,
                   faults, published>>

\* mark_terminal_callback_reconciliation_unavailable: compares the state, ended_at,
\* the attempt and the contract, and not the revision of the result.
MarkUnavailable(e) ==
    LET i == emitter[e].id IN
    unavailable' =
        IF /\ Terminal(i.run)
           /\ StateOf(result[i.run].body) = StateOf(i.body)
           /\ contract = emitter[e].contract
        THEN unavailable \cup {<<i.run, StateOf(i.body), contract>>}
        ELSE unavailable

\* _emit_callback_parallel: the contract can be used and the durable run, read again,
\* is still the snapshot's.
Announceable(e) == emitter[e].contract \in Usable /\ IsCurrent(emitter[e].id)

\* A run whose work goes on is an observation without result identity.
IntentKind(i) == IF WorkTerminal(i.run) THEN "terminal" ELSE "observed"

\* _emit_callback_parallel up to the write.  An unusable contract ends a
\* reconciliation here.
BuildIntent(e) ==
    /\ emitter[e].pc = "read"
    /\ IF Announceable(e)
       THEN /\ emitter' = [emitter EXCEPT ![e].pc = "built",
                                          ![e].id.kind = IntentKind(emitter[e].id)]
            /\ UNCHANGED unavailable
       ELSE /\ emitter' = [emitter EXCEPT ![e] = NoEmitter]
            /\ IF emitter[e].reconcile THEN MarkUnavailable(e) ELSE UNCHANGED unavailable
    /\ UNCHANGED <<result, outbox, contract, sender, receiver, heard, faults, published>>

WriteIntent(e) ==
    LET i == emitter[e].id IN
    /\ emitter[e].pc = "built"
    /\ emitter' = [emitter EXCEPT ![e] = NoEmitter]
    /\ IF IsCurrent(i)
       THEN Insert(i) /\ UNCHANGED unavailable
       ELSE /\ UNCHANGED outbox
            /\ IF emitter[e].reconcile THEN MarkUnavailable(e) ELSE UNCHANGED unavailable
    /\ UNCHANGED <<result, contract, sender, receiver, heard, faults, published>>

\* upsert_callback_outbox, insert_callback_outbox_once: a non-terminal event of a
\* run, with an identity of its own.
Announce(r, n) ==
    /\ result[r].body # "none"
    /\ Insert([kind |-> "notice", run |-> r, rev |-> 0, body |-> n])
    /\ UNCHANGED <<result, unavailable, contract, sender, emitter, receiver, heard,
                   faults, published>>

-----------------------------------------------------------------------------
\* Delivery

Taken(s, i, limit) ==
    [pc |-> "check", id |-> i, gen |-> outbox[i].gen + 1, stored |-> outbox[i].att,
     tries |-> 0, limit |-> limit, answer |-> "none"]

\* claim_pending_callback, and the budget check that follows it.
Claim(s, i) ==
    /\ sender[s].pc = "idle" /\ outbox[i].st = "pending"
    /\ \/ /\ ~IsCurrent(i)
          /\ outbox' = [outbox EXCEPT ![i].st = "superseded"]
          /\ UNCHANGED sender
       \/ /\ IsCurrent(i) /\ outbox[i].att >= MaxTotal
          /\ outbox' = [outbox EXCEPT ![i].st = "dead_lettered", ![i].gen = @ + 1]
          /\ UNCHANGED sender
       \/ /\ IsCurrent(i) /\ outbox[i].att < MaxTotal
          /\ outbox' = [outbox EXCEPT ![i].st = "delivering", ![i].gen = @ + 1]
          /\ sender' = [sender EXCEPT ![s] = Taken(s, i, Tries)]
    /\ UNCHANGED <<result, unavailable, contract, emitter, receiver, heard, faults, published>>

\* What a receiver may ask for again: a result, or the notice of a stop while the run
\* that it ended stays as it is.
Recoverable(i) == IF i.kind = "notice" THEN Terminal(i.run) ELSE i.kind = "terminal"

\* claim_terminal_callback_recovery: one post of a dead-lettered row, outside the
\* budget.  A stale row is left as it is.
RecoverDeadLetter(s, i) ==
    /\ sender[s].pc = "idle" /\ outbox[i].st = "dead_lettered"
    /\ Recoverable(i) /\ IsCurrent(i)
    /\ outbox[i].att < MaxTotal + MaxRecoveries
    /\ outbox' = [outbox EXCEPT ![i].st = "delivering", ![i].gen = @ + 1]
    /\ sender' = [sender EXCEPT ![s] = Taken(s, i, 1)]
    /\ UNCHANGED <<result, unavailable, contract, emitter, receiver, heard, faults, published>>

\* callback_delivery_is_current, before every post.
Check(s) ==
    LET i == sender[s].id IN
    /\ sender[s].pc = "check"
    /\ IF Owns(s) /\ IsCurrent(i)
       THEN sender' = [sender EXCEPT ![s].pc = "post", ![s].tries = @ + 1] /\ UNCHANGED outbox
       ELSE sender' = [sender EXCEPT ![s] = NoSender] /\ Settle(s, "superseded", 0)
    /\ UNCHANGED <<result, unavailable, contract, emitter, receiver, heard, faults, published>>

\* Mutant of Newer: the last post wins.
NewerAny(i) == i.rev # receiver[i.run].rev

\* accept_terminal_callback_result: the posted result is newer than the one held.
Newer(i) == i.rev > receiver[i.run].rev

\* accept_terminal_callback_result: the receiver's decision on a posted result.
Decision(i) ==
    IF i.kind # "terminal" \/ Newer(i) THEN "accepted"
    ELSE IF i.rev < receiver[i.run].rev THEN "superseded"
    ELSE IF i.body = receiver[i.run].body THEN "accepted" ELSE "conflict"

\* Mutant of Unreceived: an answer that is not the receiver's is taken for its
\* acceptance.
UnreceivedAccepted == {"error", "refused", "gone", "accepted"}

\* What a sender sees of a post that the receiver never processed: no answer, an
\* answer that may be retried, and one that may not.
Unreceived == {"error", "refused", "gone"}

\* The post: the request may be lost or refused, and the answer may be lost.
Post(s) ==
    LET i == sender[s].id IN
    /\ sender[s].pc = "post"
    /\ \/ /\ \E a \in Unreceived :
                sender' = [sender EXCEPT ![s].pc = "record", ![s].answer = a]
          /\ UNCHANGED <<receiver, heard>>
       \/ /\ \E a \in {Decision(i), "error"} :
                sender' = [sender EXCEPT ![s].pc = "record", ![s].answer = a]
          /\ IF i.kind = "terminal"
             THEN /\ receiver' = IF Newer(i)
                                 THEN [receiver EXCEPT ![i.run] = [rev |-> i.rev, body |-> i.body]]
                                 ELSE receiver
                  /\ UNCHANGED heard
             ELSE heard' = heard \cup {i} /\ UNCHANGED receiver
    /\ UNCHANGED <<result, outbox, unavailable, contract, emitter, faults, published>>

\* The answer is recorded; a lost or retryable one is posted again until the
\* delivery's tries are spent, and then the row waits or its budget is exhausted.
Record(s) ==
    LET me == sender[s]
        done(st) == Settle(s, st, me.tries) /\ sender' = [sender EXCEPT ![s] = NoSender]
    IN
    /\ me.pc = "record"
    /\ \/ me.answer = "accepted"
            /\ done(IF IsCurrent(me.id) THEN "http_accepted" ELSE "superseded")
       \/ me.answer = "superseded" /\ done("superseded")
       \/ me.answer \in {"conflict", "gone"} /\ done("dead_lettered")
       \/ /\ me.answer = "error" /\ me.tries < me.limit
          /\ sender' = [sender EXCEPT ![s].pc = "check", ![s].answer = "none"]
          /\ UNCHANGED outbox
       \/ /\ me.answer = "refused" \/ (me.answer = "error" /\ me.tries >= me.limit)
          /\ done(IF me.stored + me.tries >= MaxTotal THEN "dead_lettered" ELSE "pending")
    /\ UNCHANGED <<result, unavailable, contract, emitter, receiver, heard, faults, published>>

Abandoned(i) == \A s \in Senders : sender[s].id = i => outbox[i].gen # sender[s].gen

\* Mutant of Reclaim: a row without a sender is not looked for.
ReclaimHeld(i) ==
    /\ outbox[i].st = "delivering" /\ ~Abandoned(i)
    /\ faults < MaxFaults /\ faults' = faults + 1
    /\ outbox' = [outbox EXCEPT ![i].st = "pending"]
    /\ UNCHANGED <<result, unavailable, contract, sender, emitter, receiver, heard, published>>

\* reclaim_stale_delivering_callbacks: the lease expired, because the sender died
\* or because it is slower than the lease.
Reclaim(i) ==
    /\ outbox[i].st = "delivering"
    /\ IF Abandoned(i) THEN UNCHANGED faults ELSE faults < MaxFaults /\ faults' = faults + 1
    /\ outbox' = [outbox EXCEPT ![i].st = "pending"]
    /\ UNCHANGED <<result, unavailable, contract, sender, emitter, receiver, heard, published>>

\* The process dies: its threads are gone, the database and the receiver stay.
Crash ==
    /\ faults < MaxFaults /\ faults' = faults + 1
    /\ sender' = [s \in Senders |-> NoSender]
    /\ emitter' = [e \in Emitters |-> NoEmitter]
    /\ UNCHANGED <<result, outbox, unavailable, contract, receiver, heard, published>>

-----------------------------------------------------------------------------
RunStep == \E r \in Runs : OpenRun(r) \/ FinishRun(r) \/ AmendResult(r)

EmitStep ==
    \/ \E e \in Emitters : BuildIntent(e) \/ WriteIntent(e)
    \/ \E e \in Emitters, r \in Runs : BeginReconcile(e, r)

DeliveryStep ==
    \/ \E s \in Senders : Check(s) \/ Post(s) \/ Record(s)
    \/ \E i \in Ids : Reclaim(i)
    \/ \E s \in Senders, i \in Ids : Claim(s, i) \/ RecoverDeadLetter(s, i)

OutboxNext ==
    \/ RunStep
    \/ \E c \in Contracts : ChangeContract(c)
    \/ EmitStep
    \/ \E r \in Runs, n \in Notices : Announce(r, n)
    \/ DeliveryStep
    \/ Crash

OutboxSpec == OutboxInit /\ [][OutboxNext]_ovars

\* The retry loop ticks for ever, the executor runs what is submitted to it, and a
\* dead process is restarted with the same loops.  Nothing forces a run to end, a
\* fault to happen or a receiver to ask for a replay.
OutboxFairness ==
    /\ \A e \in Emitters : WF_ovars(BuildIntent(e) \/ WriteIntent(e))
    /\ \A r \in Runs : WF_ovars(\E e \in Emitters : BeginReconcile(e, r))
    /\ \A s \in Senders : WF_ovars(Check(s) \/ Post(s) \/ Record(s))
    /\ \A i \in Ids : WF_ovars(\E s \in Senders : Claim(s, i))
    /\ \A i \in Ids : WF_ovars(Abandoned(i) /\ Reclaim(i))

FairOutboxSpec == OutboxSpec /\ OutboxFairness

-----------------------------------------------------------------------------
\* Properties

\* The receiver's table goes from one published result of the run to a later one,
\* whatever is lost, repeated or reordered between the outbox and the receiver
\* (accept_terminal_callback_result behind insert_terminal_callback_outbox_if_current).
Receipt == INSTANCE ResultReceipt WITH held <- receiver
ImplementsReceipt == Receipt!ReceiptSpec

\* A row that the sender settled as accepted is backed by the receiver: it holds
\* this result or a newer one (mark_callback_http_accepted runs after the post).
AcceptedIsHeld ==
    \A i \in Ids :
        outbox[i].st = "http_accepted" =>
            IF i.kind = "terminal" THEN receiver[i.run].rev >= i.rev ELSE i \in heard

\* Only an outdated result is superseded: whenever a row was given up for a newer
\* result, the run really has one (claim, recheck, acceptance, receiver answer).
SupersededIsOutdated ==
    \A i \in Ids : outbox[i].st = "superseded" => result[i.run].rev > i.rev

\* No row is settled as something it is not: neither as accepted nor as superseded.
RowsAreTrue == AcceptedIsHeld /\ SupersededIsOutdated

\* A receiver and a sender never disagree on the content of a revision: no answer
\* is 'conflict' (the trigger advances the revision with every change).
NoConflict == \A s \in Senders : sender[s].answer # "conflict"

\* The unavailable mark is for contracts that cannot deliver ("Classify one exact
\* terminal callback contract as undeliverable").
UnavailableIsUndeliverable == \A u \in unavailable : u[3] \notin Usable

\* Every callback that entered the outbox is accepted, superseded or dead-lettered
\* in the end: no crash, lost answer or slow sender leaves it in between.
Settled(i) == outbox[i].st \in {"http_accepted", "superseded", "dead_lettered"}
CallbackSettles ==
    \A i \in Ids : outbox[i].st \in {"pending", "delivering"} ~> Settled(i)

\* The result of every finished run gets to the receiver in its last revision,
\* unless its callback is dead-lettered, the contract is marked unavailable or
\* the run was only observed while the work went on.
ResultArrives ==
    \A r \in Runs :
        Terminal(r) ~>
            \/ receiver[r] = result[r]
            \/ \E i \in TerminalIds :
                    /\ i.run = r
                    /\ \/ outbox[i].st = "dead_lettered"
                       \/ i.kind = "observed" /\ outbox[i].st # "none"
            \/ <<r, StateOf(result[r].body), contract>> \in unavailable
=============================================================================
