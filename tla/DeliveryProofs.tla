---------------------------- MODULE DeliveryProofs ---------------------------
(***************************************************************************)
(* Proofs about CallbackOutbox: no row is settled as something it is not,  *)
(* receiver and sender never disagree on a revision, and the channel       *)
(* implements ResultReceipt, for every number of runs, senders, emitters,  *)
(* tries, contracts and faults.                                            *)
(*                                                                         *)
(* Proofs about HostProcess: stops, cleanups and reconciliations of host   *)
(* processes hit the generation they mean: the inductive invariant behind  *)
(* StopsExact.  At most one generation has a lease that is neither unset   *)
(* nor released.  Its supervisor is started while the lease is reserved    *)
(* and the flock is held; so whoever holds a confirmed generation, a       *)
(* control or a reconciliation, meets no launch, and a supervisor that is  *)
(* gone then never comes back.                                             *)
(*                                                                         *)
(* Proofs about QueueNotices: what a user is told of a waiting run is one  *)
(* story.  The row counts the notices of its wait, so every refresh whose  *)
(* compare-and-set succeeds follows the last one told; the row of a        *)
(* downgraded run, which still counts those of an older wait, has no time  *)
(* for a refresh, and no pass that has read one, before its deadline.      *)
(***************************************************************************)
EXTENDS CallbackOutbox, HostProcess, QueueNotices, TLAPS

\* The results that a run ever had: numbered, one content per number, the last
\* one being the row's.
ResultsNumbered ==
    \A r \in Runs :
        /\ result[r].body \in {"none", "open"} => result[r].rev = 0 /\ published[r] = {}
        /\ result[r].body \in {"completed", "failed"} => result[r].rev = 1
        /\ result[r].body = "amended" => result[r].rev = 2
        /\ Terminal(r) => <<result[r].rev, result[r].body>> \in published[r]
        /\ \A p \in published[r] :
              /\ p[1] <= result[r].rev
              /\ p[1] = result[r].rev => p[2] = result[r].body
        /\ \A p, q \in published[r] : p[1] = q[1] => p[2] = q[2]

\* A terminal identity names a result that the run had.
Genuine(i) == i.kind # "notice" => <<i.rev, i.body>> \in published[i.run]

\* What the receiver has of an identity, and that the run has gone beyond it.
Held(i) == IF i.kind = "terminal" THEN receiver[i.run].rev >= i.rev ELSE i \in heard
Outdated(i) == result[i.run].rev > i.rev

RowsGenuine == \A i \in Ids : outbox[i].st # "none" => Genuine(i)

EmittersGenuine ==
    \A e \in Emitters :
        emitter[e].pc # "idle" => emitter[e].id \in TerminalIds /\ Genuine(emitter[e].id)

\* A sender knows of the receiver only what is still true.
SendersGenuine ==
    \A s \in Senders : sender[s].pc # "idle" =>
        /\ sender[s].id \in Ids /\ Genuine(sender[s].id)
        /\ sender[s].answer = "accepted" => Held(sender[s].id)
        /\ sender[s].answer = "superseded" => Outdated(sender[s].id)

ReceiverGenuine ==
    \A r \in Runs :
        receiver[r].rev = 0 \/ <<receiver[r].rev, receiver[r].body>> \in published[r]

OutboxInv ==
    /\ OutboxTypeOK
    /\ ResultsNumbered /\ RowsGenuine /\ EmittersGenuine /\ SendersGenuine /\ ReceiverGenuine
    /\ NoConflict
    /\ RowsAreTrue

-----------------------------------------------------------------------------
\* The initial state satisfies the invariant.
LEMMA OutboxInitInv == OutboxInit => OutboxInv
<1> SUFFICES ASSUME OutboxInit PROVE OutboxInv
  OBVIOUS
<1> USE DEF OutboxInit
<1>1. OutboxTypeOK
  <2>1. NoSender \in SenderRow /\ NoEmitter \in EmitterRow
    BY DEF NoSender, SenderRow, NoEmitter, EmitterRow, Answers
  <2>2. result \in [Runs -> ResultRow] /\ receiver \in [Runs -> ReceiverRow]
    BY DEF ResultRow, ReceiverRow
  <2>3. outbox \in [Ids -> OutboxRow]
    BY DEF OutboxRow, Statuses
  <2>4. faults \in 0 .. MaxFaults
    BY OutboxAssumption
  <2>q. QED
    BY <2>1, <2>2, <2>3, <2>4 DEF OutboxTypeOK
<1>2. ResultsNumbered
  BY DEF ResultsNumbered, Terminal, Bodies
<1>q. QED
  BY <1>1, <1>2 DEF OutboxInv, RowsGenuine, EmittersGenuine, SendersGenuine, ReceiverGenuine,
     NoConflict, RowsAreTrue, AcceptedIsHeld, SupersededIsOutdated, NoSender, NoEmitter

-----------------------------------------------------------------------------
\* Steps of a run

\* The three changes of a result, as the trigger numbers them.
Moves(r, body) ==
    \/ result[r].body = "none" /\ body = "open"
    \/ result[r].body = "open" /\ body \in {"completed", "failed"}
    \/ result[r].body \in {"completed", "failed"} /\ body = "amended"

\* A change of a result keeps the numbering, and everybody's knowledge stays true.
LEMMA SetResultStep ==
    ASSUME OutboxInv, NEW r \in Runs, NEW body, Moves(r, body), SetResult(r, body)
    PROVE  /\ result' \in [Runs -> ResultRow]
           /\ published' \in [Runs -> SUBSET (Revisions \X Bodies)]
           /\ ResultsNumbered' /\ ReceiverGenuine' /\ RowsGenuine' /\ SendersGenuine'
           /\ NoConflict' /\ RowsAreTrue'
           /\ \A q \in Runs : published[q] \subseteq published'[q]
<1> DEFINE rev == NextRevision(result[r], body)
           new == IF body \in Bodies THEN {<<rev, body>>} ELSE {}
<1>t. OutboxTypeOK /\ ResultsNumbered
  BY DEF OutboxInv
<1>1. /\ result' = [result EXCEPT ![r] = [body |-> body, rev |-> rev]]
      /\ published' = [published EXCEPT ![r] = published[r] \cup new]
      /\ UNCHANGED <<outbox, sender, receiver, heard>>
  BY DEF SetResult
<1>2. /\ body = "open" => rev = 0 /\ new = {} /\ published[r] = {}
      /\ body \in {"completed", "failed"} =>
            rev = 1 /\ new = {<<1, body>>} /\ published[r] = {} /\ result[r].rev = 0
      /\ body = "amended" => rev = 2 /\ new = {<<2, body>>} /\ result[r].rev = 1
      /\ body \in {"open", "completed", "failed", "amended"}
      /\ result[r].rev <= rev
  <2>1. /\ result[r].body \in {"none", "open"} => result[r].rev = 0 /\ published[r] = {}
        /\ result[r].body \in {"completed", "failed"} => result[r].rev = 1
    BY <1>t DEF ResultsNumbered
  <2>2. CASE body = "open"
    BY <2>1, <2>2 DEF Moves, NextRevision, Bodies
  <2>3. CASE body \in {"completed", "failed"}
    BY <2>1, <2>3 DEF Moves, NextRevision, Bodies
  <2>4. CASE body = "amended"
    BY <2>1, <2>4 DEF Moves, NextRevision, Bodies
  <2>q. QED
    BY <2>2, <2>3, <2>4 DEF Moves
<1>3. /\ result'[r] = [body |-> body, rev |-> rev]
      /\ published'[r] = published[r] \cup new
      /\ \A q \in Runs \ {r} : result'[q] = result[q] /\ published'[q] = published[q]
      /\ \A q \in Runs : published[q] \subseteq published'[q]
      /\ \A q \in Runs : published'[q] \subseteq Revisions \X Bodies
  <2>1. new \subseteq Revisions \X Bodies
    BY <1>2 DEF Revisions, Bodies
  <2>q. QED
    BY <1>t, <1>1, <2>1 DEF OutboxTypeOK
<1>4. result' \in [Runs -> ResultRow]
  <2>1. [body |-> body, rev |-> rev] \in ResultRow
    BY <1>2 DEF ResultRow, Revisions, Bodies
  <2>q. QED
    BY <1>t, <1>1, <2>1 DEF OutboxTypeOK
<1>5. published' \in [Runs -> SUBSET (Revisions \X Bodies)]
  BY <1>t, <1>1, <1>3 DEF OutboxTypeOK
<1>6. ResultsNumbered'
  <2> SUFFICES ASSUME NEW q \in Runs
               PROVE  /\ result'[q].body \in {"none", "open"} =>
                            result'[q].rev = 0 /\ published'[q] = {}
                      /\ result'[q].body \in {"completed", "failed"} => result'[q].rev = 1
                      /\ result'[q].body = "amended" => result'[q].rev = 2
                      /\ result'[q].body \in Bodies =>
                            <<result'[q].rev, result'[q].body>> \in published'[q]
                      /\ \A p \in published'[q] :
                            /\ p[1] <= result'[q].rev
                            /\ p[1] = result'[q].rev => p[2] = result'[q].body
                      /\ \A p1, p2 \in published'[q] : p1[1] = p2[1] => p1[2] = p2[2]
    BY DEF ResultsNumbered, Terminal
  <2>1. CASE q # r
    BY <1>t, <1>3, <2>1 DEF ResultsNumbered, Terminal
  <2>2. CASE q = r /\ body = "open"
    BY <1>2, <1>3, <2>2 DEF Bodies
  <2>3. CASE q = r /\ body \in {"completed", "failed"}
    BY <1>2, <1>3, <2>3 DEF Bodies
  <2>4. CASE q = r /\ body = "amended"
    <3>1. \A p \in published[r] : p[1] <= 1
      BY <1>t, <1>2, <2>4 DEF ResultsNumbered
    <3>2. \A p \in published'[r] : p \in published[r] \/ p = <<2, body>>
      BY <1>2, <1>3, <2>4
    <3>3. \A p1, p2 \in published[r] : p1[1] = p2[1] => p1[2] = p2[2]
      BY <1>t DEF ResultsNumbered
    <3>4. \A p \in published[r] : p[1] \in Nat
      BY <1>t DEF OutboxTypeOK, Revisions
    <3>q. QED
      BY <1>2, <1>3, <2>4, <3>1, <3>2, <3>3, <3>4 DEF Bodies
  <2>q. QED
    BY <1>2, <2>1, <2>2, <2>3, <2>4
<1>7. \A q \in Runs : result[q].rev <= result'[q].rev
  <2>1. \A q \in Runs : result[q].rev \in Nat
    BY <1>t DEF OutboxTypeOK, ResultRow, Revisions
  <2>q. QED
    BY <1>2, <1>3, <2>1
<1>8. /\ \A i \in Ids : Genuine(i) => Genuine(i)'
      /\ \A i \in Ids : Held(i) => Held(i)'
      /\ \A i \in Ids : Outdated(i) => Outdated(i)'
  <2>1. \A i \in Ids : i.run \in Runs /\ i.rev \in Nat
    BY DEF Ids, TerminalIds, NoticeIds, Revisions
  <2>2. \A q \in Runs : result[q].rev \in Nat /\ result'[q].rev \in Nat
    BY <1>t, <1>4 DEF OutboxTypeOK, ResultRow, Revisions
  <2>q. QED
    BY <1>1, <1>3, <1>7, <2>1, <2>2 DEF Genuine, Held, Outdated
<1>9. ReceiverGenuine' /\ RowsGenuine' /\ SendersGenuine' /\ NoConflict' /\ RowsAreTrue'
  BY <1>1, <1>3, <1>8 DEF OutboxInv, ReceiverGenuine, RowsGenuine, SendersGenuine, NoConflict,
     RowsAreTrue, AcceptedIsHeld, SupersededIsOutdated, Held, Outdated
<1>q. QED
  BY <1>3, <1>4, <1>5, <1>6, <1>9

\* The identity that a snapshot names.
LEMMA SnapshotFacts ==
    ASSUME NEW r \in Runs, NEW x \in Revisions, NEW b \in Bodies, NEW c \in Contracts,
           NEW i, i = [kind |-> "terminal", run |-> r, rev |-> x, body |-> b]
    PROVE  /\ i \in TerminalIds
           /\ [pc |-> "read", contract |-> c, reconcile |-> FALSE, id |-> i] \in EmitterRow
           /\ [pc |-> "read", contract |-> c, reconcile |-> TRUE, id |-> i] \in EmitterRow
<1>1. i \in TerminalIds
  BY DEF TerminalIds
<1>q. QED
  BY <1>1 DEF EmitterRow, Ids

\* A step of a run preserves the invariant.
LEMMA RunStepInv == ASSUME OutboxInv, RunStep PROVE OutboxInv'
<1>t. OutboxTypeOK
  BY DEF OutboxInv
<1>1. ASSUME NEW r \in Runs, NEW body, Moves(r, body), SetResult(r, body), emitter' = emitter
      PROVE  OutboxInv'
  <2>1. /\ result' \in [Runs -> ResultRow]
        /\ published' \in [Runs -> SUBSET (Revisions \X Bodies)]
        /\ ResultsNumbered' /\ ReceiverGenuine' /\ RowsGenuine' /\ SendersGenuine'
        /\ NoConflict' /\ RowsAreTrue'
        /\ \A q \in Runs : published[q] \subseteq published'[q]
    BY <1>1, SetResultStep
  <2>2. OutboxTypeOK'
    BY <1>t, <1>1, <2>1 DEF OutboxTypeOK, SetResult
  <2>3. EmittersGenuine'
    BY <1>1, <2>1 DEF OutboxInv, EmittersGenuine, Genuine, TerminalIds
  <2>q. QED
    BY <2>1, <2>2, <2>3 DEF OutboxInv
<1>2. ASSUME NEW r \in Runs, OpenRun(r) PROVE OutboxInv'
  BY <1>1, <1>2 DEF OpenRun, Moves
<1>3. ASSUME NEW r \in Runs, AmendResult(r) PROVE OutboxInv'
  BY <1>1, <1>3 DEF AmendResult, Moves
<1>4. ASSUME NEW r \in Runs, FinishRun(r) PROVE OutboxInv'
  <2>1. PICK b \in {"completed", "failed"} :
          /\ SetResult(r, b)
          /\ \/ \E e \in Emitters :
                /\ emitter[e].pc = "idle" /\ contract \in Usable
                /\ emitter' = [emitter EXCEPT ![e] =
                        Snapshot(r, [body |-> b, rev |-> NextRevision(result[r], b)], FALSE)]
             \/ UNCHANGED emitter
    BY <1>4 DEF FinishRun
  <2>2. Moves(r, b)
    BY <1>4 DEF Moves, FinishRun, Active
  <2>3. CASE UNCHANGED emitter
    BY <1>1, <2>1, <2>2, <2>3
  <2>4. ASSUME NEW e \in Emitters,
               emitter' = [emitter EXCEPT ![e] =
                   Snapshot(r, [body |-> b, rev |-> NextRevision(result[r], b)], FALSE)]
        PROVE  OutboxInv'
    <3>1. /\ result' \in [Runs -> ResultRow]
          /\ published' \in [Runs -> SUBSET (Revisions \X Bodies)]
          /\ ResultsNumbered' /\ ReceiverGenuine' /\ RowsGenuine' /\ SendersGenuine'
          /\ NoConflict' /\ RowsAreTrue'
          /\ \A q \in Runs : published[q] \subseteq published'[q]
      BY <2>1, <2>2, SetResultStep
    <3> DEFINE res == [body |-> b, rev |-> NextRevision(result[r], b)]
               snap == Snapshot(r, res, FALSE)
    <3>2. res.body = b /\ b \in Bodies /\ res.rev = NextRevision(result[r], b)
      BY DEF Bodies
    <3>3. NextRevision(result[r], b) = 1
      <4>1. result[r].body = "open" /\ result[r].rev = 0
        BY <1>4 DEF OutboxInv, ResultsNumbered, FinishRun, Active
      <4>q. QED
        BY <3>2, <4>1 DEF NextRevision
    <3>5. <<res.rev, b>> \in published'[r]
      <4>1. published'[r] = published[r] \cup {<<NextRevision(result[r], b), b>>}
        BY <1>t, <2>1, <3>2 DEF SetResult, OutboxTypeOK
      <4>q. QED
        BY <4>1, <3>2
    <3> HIDE DEF res
    <3>4. /\ snap \in EmitterRow /\ snap.id \in TerminalIds
          /\ snap.id.run = r /\ snap.id.rev = res.rev /\ snap.id.body = b
      <4>1. res.rev \in Revisions /\ res.body \in Bodies /\ contract \in Contracts
        BY <1>t, <3>2, <3>3 DEF Revisions, OutboxTypeOK
      <4>q. QED
        BY <3>2, <4>1, SnapshotFacts DEF Snapshot
    <3> HIDE DEF snap
    <3>6. emitter' = [emitter EXCEPT ![e] = snap]
      BY <2>4 DEF res, snap
    <3>7. OutboxTypeOK'
      BY <1>t, <2>1, <3>1, <3>4, <3>6 DEF OutboxTypeOK, SetResult
    <3>8. EmittersGenuine'
      BY <1>t, <3>1, <3>4, <3>5, <3>6
         DEF OutboxInv, OutboxTypeOK, EmittersGenuine, Genuine, TerminalIds
    <3>q. QED
      BY <3>1, <3>7, <3>8 DEF OutboxInv
  <2>q. QED
    BY <2>1, <2>3, <2>4
<1>q. QED
  BY <1>2, <1>3, <1>4 DEF RunStep

-----------------------------------------------------------------------------
\* Steps of the threads leave the results alone.  What must hold of the new value of
\* the row, of the sender or of the emitter that changes:

GoodRow(i, row) ==
    /\ row \in OutboxRow
    /\ row.st # "none" => Genuine(i)
    /\ row.st = "http_accepted" => Held(i)
    /\ row.st = "superseded" => Outdated(i)

GoodSender(row) ==
    /\ row \in SenderRow
    /\ row.answer # "conflict"
    /\ row.pc # "idle" =>
          /\ row.id \in Ids /\ Genuine(row.id)
          /\ row.answer = "accepted" => Held(row.id)
          /\ row.answer = "superseded" => Outdated(row.id)

GoodEmitter(row) ==
    row \in EmitterRow /\ (row.pc # "idle" => row.id \in TerminalIds /\ Genuine(row.id))

\* The invariant by rows.
LEMMA InvByRows ==
    OutboxInv <=>
        /\ OutboxTypeOK /\ ResultsNumbered /\ ReceiverGenuine
        /\ \A i \in Ids : GoodRow(i, outbox[i])
        /\ \A s \in Senders : GoodSender(sender[s])
        /\ \A e \in Emitters : GoodEmitter(emitter[e])
BY DEF OutboxInv, OutboxTypeOK, RowsGenuine, EmittersGenuine, SendersGenuine, NoConflict,
   RowsAreTrue, AcceptedIsHeld, SupersededIsOutdated, Held, Outdated,
   GoodRow, GoodSender, GoodEmitter

\* A step that leaves results and receiver alone and writes only good rows preserves
\* the invariant.
LEMMA ThreadFrame ==
    ASSUME OutboxInv, UNCHANGED <<result, published, receiver, heard>>,
           outbox' = outbox \/
               \E i \in Ids : \E row : GoodRow(i, row) /\ outbox' = [outbox EXCEPT ![i] = row],
           sender' = sender \/
               \E s \in Senders : \E row : GoodSender(row) /\ sender' = [sender EXCEPT ![s] = row],
           emitter' = emitter \/
               \E e \in Emitters : \E row :
                   GoodEmitter(row) /\ emitter' = [emitter EXCEPT ![e] = row],
           unavailable' \subseteq Runs \X {"completed", "failed"} \X Contracts,
           contract' \in Contracts, faults' \in 0 .. MaxFaults
    PROVE  OutboxInv'
<1>t. /\ OutboxTypeOK /\ ResultsNumbered /\ ReceiverGenuine
      /\ \A i \in Ids : GoodRow(i, outbox[i])
      /\ \A s \in Senders : GoodSender(sender[s])
      /\ \A e \in Emitters : GoodEmitter(emitter[e])
  BY InvByRows
<1>2. outbox' \in [Ids -> OutboxRow] /\ \A i \in Ids : GoodRow(i, outbox'[i])
  <2>1. ASSUME NEW j \in Ids, NEW row, GoodRow(j, row), outbox' = [outbox EXCEPT ![j] = row]
        PROVE  outbox' \in [Ids -> OutboxRow] /\ \A i \in Ids : GoodRow(i, outbox'[i])
    <3>1. row \in OutboxRow
      BY <2>1 DEF GoodRow
    <3>2. outbox' \in [Ids -> OutboxRow] /\ \A i \in Ids : outbox'[i] = IF i = j THEN row ELSE outbox[i]
      BY <1>t, <2>1, <3>1 DEF OutboxTypeOK
    <3>q. QED
      BY <1>t, <2>1, <3>2
  <2>q. QED
    BY <1>t, <2>1 DEF OutboxTypeOK
<1>3. sender' \in [Senders -> SenderRow] /\ \A s \in Senders : GoodSender(sender'[s])
  <2>1. ASSUME NEW x \in Senders, NEW row, GoodSender(row), sender' = [sender EXCEPT ![x] = row]
        PROVE  sender' \in [Senders -> SenderRow] /\ \A s \in Senders : GoodSender(sender'[s])
    <3>1. row \in SenderRow
      BY <2>1 DEF GoodSender
    <3>2. sender' \in [Senders -> SenderRow] /\ \A s \in Senders : sender'[s] = IF s = x THEN row ELSE sender[s]
      BY <1>t, <2>1, <3>1 DEF OutboxTypeOK
    <3>q. QED
      BY <1>t, <2>1, <3>2
  <2>q. QED
    BY <1>t, <2>1 DEF OutboxTypeOK
<1>4. emitter' \in [Emitters -> EmitterRow] /\ \A e \in Emitters : GoodEmitter(emitter'[e])
  <2>1. ASSUME NEW x \in Emitters, NEW row, GoodEmitter(row), emitter' = [emitter EXCEPT ![x] = row]
        PROVE  emitter' \in [Emitters -> EmitterRow] /\ \A e \in Emitters : GoodEmitter(emitter'[e])
    <3>1. row \in EmitterRow
      BY <2>1 DEF GoodEmitter
    <3>2. emitter' \in [Emitters -> EmitterRow] /\ \A e \in Emitters : emitter'[e] = IF e = x THEN row ELSE emitter[e]
      BY <1>t, <2>1, <3>1 DEF OutboxTypeOK
    <3>q. QED
      BY <1>t, <2>1, <3>2
  <2>q. QED
    BY <1>t, <2>1 DEF OutboxTypeOK
<1>5. OutboxTypeOK' /\ ResultsNumbered' /\ ReceiverGenuine'
  BY <1>t, <1>2, <1>3, <1>4, SMTT(20) DEF OutboxTypeOK, ResultsNumbered, ReceiverGenuine, Terminal
<1>6. /\ \A i \in Ids : GoodRow(i, outbox[i])'
      /\ \A s \in Senders : GoodSender(sender[s])'
      /\ \A e \in Emitters : GoodEmitter(emitter[e])'
  BY <1>2, <1>3, <1>4 DEF GoodRow, GoodSender, GoodEmitter, Genuine, Held, Outdated
<1>q. QED
  BY <1>5, <1>6 DEF OutboxInv, RowsGenuine, EmittersGenuine, SendersGenuine, NoConflict,
     RowsAreTrue, AcceptedIsHeld, SupersededIsOutdated, Held, Outdated,
     GoodRow, GoodSender, GoodEmitter

\* What a step may change besides results and receiver, as ThreadFrame asks for it.
RowWritten ==
    \/ outbox' = outbox
    \/ \E i \in Ids : \E row : GoodRow(i, row) /\ outbox' = [outbox EXCEPT ![i] = row]
SenderWritten ==
    \/ sender' = sender
    \/ \E s \in Senders : \E row : GoodSender(row) /\ sender' = [sender EXCEPT ![s] = row]
EmitterWritten ==
    \/ emitter' = emitter
    \/ \E e \in Emitters : \E row : GoodEmitter(row) /\ emitter' = [emitter EXCEPT ![e] = row]

\* A genuine identity that is not current is a terminal one, and the run has gone beyond it.
LEMMA NotCurrent ==
    ASSUME OutboxInv, NEW i \in Ids, Genuine(i), ~IsCurrent(i)
    PROVE  i.kind = "terminal" /\ Outdated(i)
<1>1. i.kind = "terminal" /\ result[i.run] # [body |-> i.body, rev |-> i.rev]
  BY DEF IsCurrent
<1>2. i.run \in Runs /\ i.rev \in Nat /\ <<i.rev, i.body>> \in published[i.run]
  BY <1>1 DEF Genuine, Ids, TerminalIds, NoticeIds, Revisions
<1>3. i.rev <= result[i.run].rev /\ (i.rev = result[i.run].rev => i.body = result[i.run].body)
  BY <1>2 DEF OutboxInv, ResultsNumbered
<1>4. result[i.run] \in ResultRow /\ result[i.run].rev \in Nat
  BY <1>2 DEF OutboxInv, OutboxTypeOK, ResultRow, Revisions
<1>5. i.rev # result[i.run].rev
  <2>1. result[i.run] = [body |-> result[i.run].body, rev |-> result[i.run].rev]
    BY <1>4 DEF ResultRow
  <2>q. QED
    BY <1>1, <1>3, <2>1
<1>q. QED
  BY <1>1, <1>2, <1>3, <1>4, <1>5 DEF Outdated

\* A settled row is good if the verdict is true.
LEMMA SettleGood ==
    ASSUME OutboxInv, NEW s \in Senders, sender[s].pc # "idle",
           NEW st \in Statuses, st # "none", NEW n \in Nat, Settle(s, st, n),
           Owns(s) /\ st = "http_accepted" => Held(sender[s].id),
           Owns(s) /\ st = "superseded" => Outdated(sender[s].id)
    PROVE  RowWritten
<1> DEFINE i == sender[s].id
           row == [outbox[i] EXCEPT !.st = st, !.att = outbox[i].att + n]
<1>1. i \in Ids /\ Genuine(i)
  BY DEF OutboxInv, SendersGenuine
<1>2. GoodRow(i, outbox[i]) /\ outbox[i] \in OutboxRow
  BY <1>1, InvByRows DEF GoodRow
<1>3. CASE Owns(s)
  <2>1. row \in OutboxRow /\ row.st = st
    <3>1. outbox[i].att + n \in Nat
      BY <1>2 DEF OutboxRow
    <3>2. ASSUME NEW m \in Nat
          PROVE  /\ [outbox[i] EXCEPT !.st = st, !.att = m] \in OutboxRow
                 /\ [outbox[i] EXCEPT !.st = st, !.att = m].st = st
      BY <1>2 DEF OutboxRow
    <3>q. QED
      BY <3>1, <3>2
  <2>2. GoodRow(i, row)
    BY <1>1, <1>3, <2>1 DEF GoodRow
  <2>3. outbox' = [outbox EXCEPT ![i] = row]
    BY <1>3 DEF Settle
  <2>q. QED
    BY <1>1, <2>2, <2>3 DEF RowWritten
<1>4. CASE ~Owns(s)
  BY <1>4 DEF Settle, RowWritten
<1>q. QED
  BY <1>3, <1>4

\* NoSender and NoEmitter are good.
LEMMA Nobody == GoodSender(NoSender) /\ GoodEmitter(NoEmitter)
BY DEF GoodSender, NoSender, SenderRow, Answers, GoodEmitter, NoEmitter, EmitterRow

\* The mark of an unavailable contract is well typed.
LEMMA MarkType ==
    ASSUME OutboxInv, NEW e \in Emitters, emitter[e].pc # "idle", MarkUnavailable(e)
    PROVE  unavailable' \subseteq Runs \X {"completed", "failed"} \X Contracts
<1>1. emitter[e].id.run \in Runs
  BY DEF OutboxInv, EmittersGenuine, TerminalIds
<1>q. QED
  BY <1>1 DEF OutboxInv, OutboxTypeOK, MarkUnavailable, StateOf

\* Emission preserves the invariant.
LEMMA EmitStepInv == ASSUME OutboxInv, EmitStep PROVE OutboxInv'
<1>t. OutboxTypeOK /\ \A e \in Emitters : GoodEmitter(emitter[e])
  BY InvByRows
<1>f. ASSUME UNCHANGED <<result, published, receiver, heard, contract, faults>>,
             RowWritten, SenderWritten, EmitterWritten,
             unavailable' \subseteq Runs \X {"completed", "failed"} \X Contracts
      PROVE  OutboxInv'
  BY <1>f, <1>t, ThreadFrame DEF RowWritten, SenderWritten, EmitterWritten, OutboxTypeOK
<1>1. ASSUME NEW e \in Emitters, BuildIntent(e) PROVE OutboxInv'
  <2>1. emitter[e].id \in TerminalIds /\ Genuine(emitter[e].id) /\ emitter[e] \in EmitterRow
    BY <1>t, <1>1 DEF BuildIntent, GoodEmitter
  <2>2. unavailable' \subseteq Runs \X {"completed", "failed"} \X Contracts
    BY <1>t, <1>1, MarkType DEF BuildIntent, OutboxTypeOK
  <2>3. EmitterWritten
    <3> DEFINE kind == IntentKind(emitter[e].id)
               row == [emitter[e] EXCEPT !.pc = "built", !.id.kind = kind]
    <3>1. row.id \in TerminalIds /\ row.id.kind = kind /\ row.id.run = emitter[e].id.run
          /\ row.id.rev = emitter[e].id.rev /\ row.id.body = emitter[e].id.body
      BY <2>1 DEF TerminalIds, EmitterRow, IntentKind
    <3>2. row \in EmitterRow
      BY <2>1, <3>1 DEF EmitterRow, Ids
    <3>3. GoodEmitter(row)
      BY <2>1, <3>1, <3>2 DEF GoodEmitter, Genuine, TerminalIds
    <3>4. \/ emitter' = [emitter EXCEPT ![e] = row]
          \/ emitter' = [emitter EXCEPT ![e] = NoEmitter]
      BY <1>1 DEF BuildIntent
    <3>q. QED
      BY <3>3, <3>4, Nobody DEF EmitterWritten
  <2>q. QED
    BY <1>f, <1>1, <2>2, <2>3 DEF BuildIntent, RowWritten, SenderWritten
<1>2. ASSUME NEW e \in Emitters, WriteIntent(e) PROVE OutboxInv'
  <2>1. emitter[e].id \in Ids /\ Genuine(emitter[e].id)
    BY <1>t, <1>2 DEF WriteIntent, GoodEmitter, Ids
  <2>2. unavailable' \subseteq Runs \X {"completed", "failed"} \X Contracts
    BY <1>t, <1>2, MarkType DEF WriteIntent, OutboxTypeOK
  <2>3. EmitterWritten
    BY <1>2, Nobody DEF WriteIntent, EmitterWritten
  <2>4. ASSUME NEW i \in Ids, Genuine(i), Insert(i) PROVE RowWritten
    <3> DEFINE row == [outbox[i] EXCEPT !.st = IF outbox[i].st = "none" THEN "pending" ELSE outbox[i].st]
    <3>1. GoodRow(i, outbox[i]) /\ outbox[i] \in OutboxRow
      BY InvByRows DEF GoodRow
    <3>2. GoodRow(i, row)
      BY <2>4, <3>1 DEF GoodRow, OutboxRow, Statuses
    <3>3. outbox' = [outbox EXCEPT ![i] = row]
      BY <2>4 DEF Insert
    <3>q. QED
      BY <3>2, <3>3 DEF RowWritten
  <2>5. RowWritten
    BY <1>2, <2>1, <2>4 DEF WriteIntent, RowWritten
  <2>q. QED
    BY <1>f, <1>2, <2>2, <2>3, <2>5 DEF WriteIntent, SenderWritten
<1>3. ASSUME NEW e \in Emitters, NEW r \in Runs, BeginReconcile(e, r) PROVE OutboxInv'
  <2> DEFINE i == [kind |-> "terminal", run |-> r, rev |-> result[r].rev, body |-> result[r].body]
             snap == [pc |-> "read", contract |-> contract, reconcile |-> TRUE, id |-> i]
  <2>1. result[r].body \in Bodies /\ result[r].rev \in Revisions
        /\ <<result[r].rev, result[r].body>> \in published[r]
    BY <1>3 DEF BeginReconcile, MissingIntent, Terminal, OutboxInv, ResultsNumbered, Bodies, Revisions
  <2>2. i \in TerminalIds /\ snap \in EmitterRow
    BY <1>t, <2>1, SnapshotFacts DEF OutboxTypeOK
  <2>3. GoodEmitter(snap)
    BY <2>1, <2>2 DEF GoodEmitter, Genuine
  <2>4. EmitterWritten
    BY <1>3, <2>3 DEF BeginReconcile, Snapshot, EmitterWritten
  <2>q. QED
    BY <1>f, <1>t, <1>3, <2>4 DEF BeginReconcile, RowWritten, SenderWritten, OutboxTypeOK
<1>q. QED
  BY <1>1, <1>2, <1>3 DEF EmitStep

\* A claim of a genuine row: the row with its next generation, and the new delivery.
LEMMA ClaimGood ==
    ASSUME OutboxInv, NEW i \in Ids, outbox[i].st # "none", NEW st \in Statuses,
           st \in {"dead_lettered", "delivering"}
    PROVE  GoodRow(i, [outbox[i] EXCEPT !.st = st, !.gen = outbox[i].gen + 1])
<1>1. outbox[i] \in OutboxRow /\ Genuine(i)
  BY InvByRows DEF GoodRow
<1>2. outbox[i].gen + 1 \in Nat
  BY <1>1 DEF OutboxRow
<1>3. ASSUME NEW m \in Nat
      PROVE  GoodRow(i, [outbox[i] EXCEPT !.st = st, !.gen = m])
  BY <1>1 DEF GoodRow, OutboxRow
<1>q. QED
  BY <1>2, <1>3

LEMMA TakenGood ==
    ASSUME OutboxInv, NEW i \in Ids, outbox[i].st # "none", NEW s, NEW limit \in Nat
    PROVE  GoodSender(Taken(s, i, limit))
<1>1. outbox[i] \in OutboxRow /\ Genuine(i)
  BY InvByRows DEF GoodRow
<1>2. outbox[i].gen + 1 \in Nat /\ outbox[i].att \in Nat
  BY <1>1 DEF OutboxRow
<1>q. QED
  BY <1>1, <1>2 DEF GoodSender, Taken, SenderRow, Answers

\* What a post decides is true: an accepted result is held afterwards, a superseded one is
\* outdated, and there is never a conflict.
LEMMA DecisionTrue ==
    ASSUME OutboxInv, NEW i \in Ids, Genuine(i)
    PROVE  /\ Decision(i) \in {"accepted", "superseded"}
           /\ Decision(i) = "superseded" => Outdated(i)
           /\ Decision(i) = "accepted" /\ i.kind = "terminal" =>
                 Newer(i) \/ receiver[i.run].rev >= i.rev
<1>1. CASE i.kind # "terminal"
  BY <1>1 DEF Decision
<1>2. CASE i.kind = "terminal"
  <2>1. i.run \in Runs /\ i.rev \in Nat /\ i.rev # 0 /\ <<i.rev, i.body>> \in published[i.run]
    BY <1>2 DEF Genuine, Ids, TerminalIds, NoticeIds, Revisions
  <2>2. receiver[i.run].rev \in Nat /\ result[i.run].rev \in Nat
    <3>1. receiver[i.run] \in ReceiverRow /\ result[i.run] \in ResultRow
      BY <2>1 DEF OutboxInv, OutboxTypeOK
    <3>q. QED
      BY <3>1 DEF ReceiverRow, ResultRow, Revisions
  <2>3. receiver[i.run].rev = 0 \/ <<receiver[i.run].rev, receiver[i.run].body>> \in published[i.run]
    BY <2>1 DEF OutboxInv, ReceiverGenuine
  <2>4. receiver[i.run].rev <= result[i.run].rev
    <3>1. \A p \in published[i.run] : p[1] <= result[i.run].rev
      BY <2>1 DEF OutboxInv, ResultsNumbered
    <3>2. <<receiver[i.run].rev, receiver[i.run].body>>[1] = receiver[i.run].rev
      OBVIOUS
    <3>q. QED
      BY <2>2, <2>3, <3>1, <3>2
  <2>5. receiver[i.run].rev = i.rev => receiver[i.run].body = i.body
    <3>1. \A p, q \in published[i.run] : p[1] = q[1] => p[2] = q[2]
      BY <2>1 DEF OutboxInv, ResultsNumbered
    <3> DEFINE p == <<receiver[i.run].rev, receiver[i.run].body>>
               q == <<i.rev, i.body>>
    <3>2. p[1] = receiver[i.run].rev /\ p[2] = receiver[i.run].body /\ q[1] = i.rev /\ q[2] = i.body
      OBVIOUS
    <3> HIDE DEF p, q
    <3>3. q \in published[i.run] /\ (receiver[i.run].rev # 0 => p \in published[i.run])
      BY <2>1, <2>3 DEF p, q
    <3>q. QED
      BY <2>1, <3>1, <3>2, <3>3
  <2>q. QED
    BY <1>2, <2>1, <2>2, <2>4, <2>5 DEF Decision, Newer, Outdated
<1>q. QED
  BY <1>1, <1>2

\* A post preserves the invariant: the receiver learns a genuine result, and what others
\* know of it stays true because it only moves on.
LEMMA PostInv == ASSUME OutboxInv, NEW s \in Senders, Post(s) PROVE OutboxInv'
<1> DEFINE i == sender[s].id
<1>t. /\ OutboxTypeOK /\ ResultsNumbered /\ ReceiverGenuine
      /\ \A j \in Ids : GoodRow(j, outbox[j])
      /\ \A x \in Senders : GoodSender(sender[x])
      /\ \A e \in Emitters : GoodEmitter(emitter[e])
  BY InvByRows
<1>1. i \in Ids /\ Genuine(i) /\ sender[s] \in SenderRow
  BY <1>t DEF Post, GoodSender
<1>2. i.run \in Runs /\ i.rev \in Nat /\ (i.kind # "notice" => i.rev \in Revisions /\ i.body \in Bodies)
  BY <1>1 DEF Ids, TerminalIds, NoticeIds, Revisions
<1>3. PICK a \in Answers :
        /\ a # "conflict"
        /\ sender' = [sender EXCEPT ![s] = [sender[s] EXCEPT !.pc = "record", !.answer = a]]
        /\ a = "superseded" => Outdated(i)
        /\ a = "accepted" =>
              IF i.kind = "terminal" THEN Newer(i) \/ receiver[i.run].rev >= i.rev ELSE i \in heard'
        /\ a = "accepted" /\ i.kind = "terminal" /\ Newer(i) =>
              receiver' = [receiver EXCEPT ![i.run] = [rev |-> i.rev, body |-> i.body]]
  <2>1. CASE \E a \in Unreceived :
               sender' = [sender EXCEPT ![s].pc = "record", ![s].answer = a]
    <3>1. PICK a \in Unreceived : sender' = [sender EXCEPT ![s].pc = "record", ![s].answer = a]
      BY <2>1
    <3>2. a \in Answers /\ a \notin {"conflict", "superseded", "accepted"}
      BY DEF Unreceived, Answers
    <3>3. sender' = [sender EXCEPT ![s] = [sender[s] EXCEPT !.pc = "record", !.answer = a]]
      BY <3>1
    <3>q. QED
      BY <3>2, <3>3
  <2>2. CASE /\ \E a \in {Decision(i), "error"} :
                   sender' = [sender EXCEPT ![s].pc = "record", ![s].answer = a]
             /\ IF i.kind = "terminal"
                THEN /\ receiver' = IF Newer(i)
                                    THEN [receiver EXCEPT ![i.run] = [rev |-> i.rev, body |-> i.body]]
                                    ELSE receiver
                     /\ UNCHANGED heard
                ELSE heard' = heard \cup {i} /\ UNCHANGED receiver
    <3>1. PICK a \in {Decision(i), "error"} :
            sender' = [sender EXCEPT ![s] = [sender[s] EXCEPT !.pc = "record", !.answer = a]]
      BY <2>2
    <3>2. a \in Answers /\ a # "conflict" /\ (a # "error" => a = Decision(i))
      BY <1>1, <3>1, DecisionTrue DEF Answers
    <3>3. /\ a = "superseded" => Outdated(i)
          /\ a = "accepted" /\ i.kind = "terminal" => Newer(i) \/ receiver[i.run].rev >= i.rev
      BY <1>1, <3>2, DecisionTrue
    <3>q. QED
      BY <2>2, <3>1, <3>2, <3>3
  <2>q. QED
    BY <2>1, <2>2 DEF Post
<1>4. /\ \/ receiver' = receiver
         \/ /\ i.kind = "terminal" /\ Newer(i)
            /\ receiver' = [receiver EXCEPT ![i.run] = [rev |-> i.rev, body |-> i.body]]
      /\ heard \subseteq heard' /\ heard' \subseteq heard \cup {i}
      /\ UNCHANGED <<result, outbox, unavailable, contract, emitter, faults, published>>
  BY DEF Post
<1>5. /\ receiver' \in [Runs -> ReceiverRow]
      /\ \A r \in Runs : receiver[r].rev \in Nat /\ receiver'[r].rev \in Nat
      /\ \A r \in Runs : receiver[r].rev <= receiver'[r].rev
  <2>1. receiver \in [Runs -> ReceiverRow] /\ \A r \in Runs : receiver[r].rev \in Nat
    BY <1>t DEF OutboxTypeOK, ReceiverRow, Revisions
  <2>2. i.kind = "terminal" => [rev |-> i.rev, body |-> i.body] \in ReceiverRow
    BY <1>2 DEF ReceiverRow
  <2>3. receiver' \in [Runs -> ReceiverRow]
    BY <1>2, <1>4, <2>1, <2>2
  <2>4. \A r \in Runs : receiver[r].rev <= receiver'[r].rev
    BY <1>2, <1>4, <2>1 DEF Newer
  <2>q. QED
    BY <2>1, <2>3, <2>4 DEF ReceiverRow, Revisions
<1>6. ReceiverGenuine'
  BY <1>t, <1>1, <1>2, <1>4 DEF ReceiverGenuine, Genuine, OutboxTypeOK
<1>7. /\ \A j \in Ids : Held(j) => Held(j)'
      /\ \A j : Genuine(j) <=> Genuine(j)'
      /\ \A j : Outdated(j) <=> Outdated(j)'
  <2>1. \A j \in Ids : j.run \in Runs /\ j.rev \in Nat
    BY DEF Ids, TerminalIds, NoticeIds, Revisions
  <2>q. QED
    BY <1>4, <1>5, <2>1 DEF Held, Genuine, Outdated
<1>8. a = "accepted" => Held(i)'
  <2>1. receiver'[i.run].rev >= i.rev \/ i.kind # "terminal" \/ a # "accepted"
    BY <1>t, <1>2, <1>3, <1>5 DEF OutboxTypeOK
  <2>q. QED
    BY <1>3, <2>1 DEF Held
<1> DEFINE row == [sender[s] EXCEPT !.pc = "record", !.answer = a]
<1>9. row \in SenderRow /\ row.id = i /\ row.answer = a /\ row.pc = "record"
  BY <1>1, <1>3 DEF SenderRow
<1> HIDE DEF row
<1>10. sender' = [sender EXCEPT ![s] = row]
  BY <1>3 DEF row
<1>11. OutboxTypeOK' /\ ResultsNumbered'
  BY <1>t, <1>1, <1>4, <1>5, <1>9, <1>10 DEF OutboxTypeOK, ResultsNumbered, Terminal
<1>12. RowsGenuine' /\ EmittersGenuine' /\ RowsAreTrue'
  BY <1>4, <1>7 DEF OutboxInv, RowsGenuine, EmittersGenuine, RowsAreTrue, AcceptedIsHeld,
     SupersededIsOutdated, Held, Outdated
<1>13. \A x \in Senders : sender'[x] = IF x = s THEN row ELSE sender[x]
  BY <1>t, <1>10 DEF OutboxTypeOK
<1>14. SendersGenuine' /\ NoConflict'
  <2> SUFFICES ASSUME NEW x \in Senders
               PROVE  /\ sender'[x].answer # "conflict"
                      /\ sender'[x].pc # "idle" =>
                            /\ sender'[x].id \in Ids /\ Genuine(sender'[x].id)
                            /\ sender'[x].answer = "accepted" => Held(sender[x].id)'
                            /\ sender'[x].answer = "superseded" => Outdated(sender'[x].id)
    BY <1>7 DEF SendersGenuine, NoConflict, Genuine, Outdated
  <2>1. CASE x = s
    BY <1>1, <1>3, <1>8, <1>9, <1>13, <2>1 DEF Held
  <2>2. CASE x # s
    <3>1. GoodSender(sender[x]) /\ sender'[x] = sender[x]
      BY <1>t, <1>13, <2>2
    <3>q. QED
      BY <1>7, <3>1 DEF GoodSender, Held
  <2>q. QED
    BY <2>1, <2>2
<1>q. QED
  BY <1>6, <1>11, <1>12, <1>14 DEF OutboxInv

\* Claims, checks, records and the reclaim of leases preserve the invariant.
LEMMA DeliveryInv == ASSUME OutboxInv, DeliveryStep PROVE OutboxInv'
<1>t. /\ OutboxTypeOK
      /\ \A i \in Ids : GoodRow(i, outbox[i])
      /\ \A x \in Senders : GoodSender(sender[x])
  BY InvByRows
<1>f. ASSUME UNCHANGED <<result, published, receiver, heard, unavailable, contract, emitter>>,
             RowWritten, SenderWritten, faults' \in 0 .. MaxFaults
      PROVE  OutboxInv'
  BY <1>f, <1>t, ThreadFrame DEF RowWritten, SenderWritten, OutboxTypeOK
<1>n. faults \in 0 .. MaxFaults /\ MaxTotal \in Nat /\ Tries \in Nat /\ MaxFaults \in Nat
  BY <1>t, OutboxAssumption DEF OutboxTypeOK
<1>1. ASSUME NEW s \in Senders, NEW i \in Ids, Claim(s, i) PROVE OutboxInv'
  <2>1. outbox[i].st = "pending" /\ Genuine(i) /\ outbox[i] \in OutboxRow
    BY <1>t, <1>1 DEF Claim, GoodRow
  <2>2. CASE ~IsCurrent(i)
    <3> DEFINE row == [outbox[i] EXCEPT !.st = "superseded"]
    <3>1. Outdated(i)
      BY <2>1, <2>2, NotCurrent
    <3>2. GoodRow(i, row)
      BY <2>1, <3>1 DEF GoodRow, OutboxRow, Statuses
    <3>3. outbox' = [outbox EXCEPT ![i] = row] /\ UNCHANGED sender
      BY <1>1, <2>2 DEF Claim
    <3>q. QED
      BY <1>f, <1>n, <1>1, <3>2, <3>3 DEF Claim, RowWritten, SenderWritten
  <2>3. CASE outbox[i].att >= MaxTotal /\ IsCurrent(i)
    <3> DEFINE row == [outbox[i] EXCEPT !.st = "dead_lettered", !.gen = outbox[i].gen + 1]
    <3>1. GoodRow(i, row)
      BY <2>1, ClaimGood DEF Statuses
    <3>2. ~(outbox[i].att < MaxTotal)
      BY <1>n, <2>1, <2>3 DEF OutboxRow
    <3>3. outbox' = [outbox EXCEPT ![i] = row] /\ UNCHANGED sender
      BY <1>1, <2>3, <3>2 DEF Claim
    <3>q. QED
      BY <1>f, <1>n, <1>1, <3>1, <3>3 DEF Claim, RowWritten, SenderWritten
  <2>4. CASE ~(outbox[i].att >= MaxTotal) /\ IsCurrent(i)
    <3> DEFINE row == [outbox[i] EXCEPT !.st = "delivering", !.gen = outbox[i].gen + 1]
    <3>1. GoodRow(i, row) /\ GoodSender(Taken(s, i, Tries))
      BY <1>n, <2>1, ClaimGood, TakenGood DEF Statuses
    <3>2. /\ outbox' = [outbox EXCEPT ![i] = row]
          /\ sender' = [sender EXCEPT ![s] = Taken(s, i, Tries)]
      BY <1>1, <2>4 DEF Claim
    <3>q. QED
      BY <1>f, <1>n, <1>1, <3>1, <3>2 DEF Claim, RowWritten, SenderWritten
  <2>q. QED
    BY <2>2, <2>3, <2>4
<1>2. ASSUME NEW s \in Senders, NEW i \in Ids, RecoverDeadLetter(s, i) PROVE OutboxInv'
  <2> DEFINE row == [outbox[i] EXCEPT !.st = "delivering", !.gen = outbox[i].gen + 1]
  <2>1. GoodRow(i, row) /\ GoodSender(Taken(s, i, 1))
    BY <1>2, ClaimGood, TakenGood DEF Statuses, RecoverDeadLetter
  <2>2. /\ outbox' = [outbox EXCEPT ![i] = row]
        /\ sender' = [sender EXCEPT ![s] = Taken(s, i, 1)]
    BY <1>2 DEF RecoverDeadLetter
  <2>q. QED
    BY <1>f, <1>n, <1>2, <2>1, <2>2 DEF RecoverDeadLetter, RowWritten, SenderWritten
<1>3. ASSUME NEW i \in Ids, Reclaim(i) PROVE OutboxInv'
  <2> DEFINE row == [outbox[i] EXCEPT !.st = "pending"]
  <2>1. GoodRow(i, row)
    BY <1>t, <1>3 DEF GoodRow, OutboxRow, Statuses, Reclaim
  <2>2. outbox' = [outbox EXCEPT ![i] = row]
    BY <1>3 DEF Reclaim
  <2>3. faults' \in 0 .. MaxFaults
    BY <1>n, <1>3 DEF Reclaim
  <2>q. QED
    BY <1>f, <1>3, <2>1, <2>2, <2>3 DEF Reclaim, RowWritten, SenderWritten
<1>4. ASSUME NEW s \in Senders, Check(s) PROVE OutboxInv'
  <2> DEFINE i == sender[s].id
  <2>1. i \in Ids /\ Genuine(i) /\ sender[s] \in SenderRow /\ sender[s].pc = "check"
        /\ GoodSender(sender[s])
    BY <1>t, <1>4 DEF Check, GoodSender
  <2>2. CASE Owns(s) /\ IsCurrent(i)
    <3>1. sender[s].tries + 1 \in Nat
      BY <2>1 DEF SenderRow
    <3>2. ASSUME NEW m \in Nat
          PROVE  GoodSender([sender[s] EXCEPT !.pc = "post", !.tries = m])
      BY <2>1 DEF GoodSender, SenderRow
    <3>3. /\ sender' = [sender EXCEPT ![s] =
                [sender[s] EXCEPT !.pc = "post", !.tries = sender[s].tries + 1]]
          /\ UNCHANGED outbox
      BY <1>4, <2>2 DEF Check
    <3>q. QED
      BY <1>f, <1>n, <1>4, <3>1, <3>2, <3>3 DEF Check, RowWritten, SenderWritten
  <2>3. CASE ~(Owns(s) /\ IsCurrent(i))
    <3>1. sender' = [sender EXCEPT ![s] = NoSender] /\ Settle(s, "superseded", 0)
      BY <1>4, <2>3 DEF Check
    <3>2. Owns(s) => Outdated(i)
      BY <2>1, <2>3, NotCurrent
    <3>3. RowWritten
      BY <2>1, <3>1, <3>2, SettleGood DEF Statuses
    <3>q. QED
      BY <1>f, <1>n, <1>4, <3>1, <3>3, Nobody DEF Check, SenderWritten
  <2>q. QED
    BY <2>2, <2>3
<1>5. ASSUME NEW s \in Senders, Record(s) PROVE OutboxInv'
  <2> DEFINE me == sender[s]
  <2>1. me.id \in Ids /\ Genuine(me.id) /\ me \in SenderRow /\ me.pc = "record"
        /\ GoodSender(me) /\ me.tries \in Nat
    BY <1>t, <1>5 DEF Record, GoodSender, SenderRow
  <2>2. ASSUME NEW st \in Statuses, st # "none", Settle(s, st, me.tries),
               sender' = [sender EXCEPT ![s] = NoSender],
               st = "http_accepted" => me.answer = "accepted",
               st = "superseded" => me.answer = "superseded" \/ ~IsCurrent(me.id)
        PROVE  OutboxInv'
    <3>1. st = "http_accepted" => Held(me.id)
      BY <2>1, <2>2 DEF GoodSender
    <3>2. st = "superseded" => Outdated(me.id)
      BY <2>1, <2>2, NotCurrent DEF GoodSender
    <3>3. RowWritten
      BY <2>1, <2>2, <3>1, <3>2, SettleGood
    <3>q. QED
      BY <1>f, <1>n, <1>5, <2>2, <3>3, Nobody DEF Record, SenderWritten
  <2>3. CASE /\ sender' = [sender EXCEPT ![s].pc = "check", ![s].answer = "none"]
             /\ UNCHANGED outbox
    <3> DEFINE row == [sender[s] EXCEPT !.pc = "check", !.answer = "none"]
    <3>1. GoodSender(row)
      BY <2>1 DEF GoodSender, SenderRow, Answers
    <3>2. sender' = [sender EXCEPT ![s] = row]
      BY <2>3
    <3>q. QED
      BY <1>f, <1>n, <1>5, <2>3, <3>1, <3>2 DEF Record, RowWritten, SenderWritten
  <2>q. QED
    BY <1>5, <2>2, <2>3 DEF Record, Statuses
<1>q. QED
  BY <1>1, <1>2, <1>3, <1>4, <1>5, PostInv DEF DeliveryStep

\* Every step preserves the invariant.
LEMMA OutboxNextInv == OutboxInv /\ [OutboxNext]_ovars => OutboxInv'
<1> SUFFICES ASSUME OutboxInv, [OutboxNext]_ovars PROVE OutboxInv'
  OBVIOUS
<1>t. /\ OutboxTypeOK
      /\ \A i \in Ids : GoodRow(i, outbox[i])
  BY InvByRows
<1>f. ASSUME UNCHANGED <<result, published, receiver, heard, unavailable, sender, emitter, faults>>,
             RowWritten, contract' \in Contracts
      PROVE  OutboxInv'
  BY <1>f, <1>t, ThreadFrame DEF RowWritten, OutboxTypeOK
<1>1. ASSUME NEW c \in Contracts, ChangeContract(c) PROVE OutboxInv'
  BY <1>f, <1>1 DEF ChangeContract, RowWritten
<1>2. ASSUME NEW r \in Runs, NEW n \in Notices, Announce(r, n) PROVE OutboxInv'
  <2> DEFINE i == [kind |-> "notice", run |-> r, rev |-> 0, body |-> n]
             row == [outbox[i] EXCEPT !.st = IF outbox[i].st = "none" THEN "pending" ELSE outbox[i].st]
  <2>1. i \in Ids /\ Genuine(i)
    BY DEF Ids, NoticeIds, Genuine
  <2> HIDE DEF i
  <2>2. GoodRow(i, row)
    BY <1>t, <2>1 DEF GoodRow, OutboxRow, Statuses
  <2>3. outbox' = [outbox EXCEPT ![i] = row]
    BY <1>2 DEF Announce, Insert, i
  <2>q. QED
    BY <1>f, <1>t, <1>2, <2>1, <2>2, <2>3 DEF Announce, RowWritten, OutboxTypeOK
<1>3. CASE Crash
  <2>1. faults' \in 0 .. MaxFaults
    BY <1>t, <1>3, OutboxAssumption DEF Crash, OutboxTypeOK
  <2>2. /\ sender' \in [Senders -> SenderRow] /\ emitter' \in [Emitters -> EmitterRow]
        /\ \A s \in Senders : sender'[s].pc = "idle" /\ sender'[s].answer = "none"
        /\ \A e \in Emitters : emitter'[e].pc = "idle"
    BY <1>3, Nobody DEF Crash, GoodSender, GoodEmitter, NoSender, NoEmitter
  <2>q. QED
    BY <1>t, <1>3, <2>1, <2>2, ZenonT(30) DEF Crash, OutboxInv, OutboxTypeOK, ResultsNumbered, RowsGenuine,
       EmittersGenuine, SendersGenuine, ReceiverGenuine, NoConflict, RowsAreTrue,
       AcceptedIsHeld, SupersededIsOutdated, Genuine, Terminal
<1>4. CASE UNCHANGED ovars
  BY <1>f, <1>t, <1>4 DEF ovars, RowWritten, OutboxTypeOK
<1>q. QED
  BY <1>1, <1>2, <1>3, <1>4, RunStepInv, EmitStepInv, DeliveryInv DEF OutboxNext

-----------------------------------------------------------------------------
\* The invariant holds in every behaviour.
THEOREM OutboxCorrect == OutboxSpec => []OutboxInv
<1>q. QED
  BY OutboxInitInv, OutboxNextInv, PTL DEF OutboxSpec

\* No callback row is ever settled as something it is not: an accepted one is held by the
\* receiver, and a superseded one has a newer result (claim, recheck, record).
THEOREM RowsTrue == OutboxSpec => []RowsAreTrue
<1>1. OutboxInv => RowsAreTrue
  BY DEF OutboxInv
<1>q. QED
  BY OutboxCorrect, <1>1, PTL

\* Sender and receiver never disagree on the content of a revision, so
\* accept_terminal_callback_result never answers 'conflict'.
THEOREM Agreement == OutboxSpec => []NoConflict
<1>1. OutboxInv => NoConflict
  BY DEF OutboxInv
<1>q. QED
  BY OutboxCorrect, <1>1, PTL

-----------------------------------------------------------------------------
\* The channel implements ResultReceipt.

\* Every step publishes the next result of a run, lets the receiver learn a newer one, or
\* changes nothing that the receipt speaks of.
LEMMA ReceiptStep ==
    ASSUME OutboxInv, [OutboxNext]_ovars
    PROVE  [Receipt!ReceiptNext]_<<published, receiver>>
<1>t. OutboxTypeOK /\ ResultsNumbered
  BY DEF OutboxInv
<1>1. ASSUME NEW r \in Runs, NEW body, Moves(r, body), SetResult(r, body)
      PROVE  [Receipt!ReceiptNext]_<<published, receiver>>
  <2> DEFINE rev == NextRevision(result[r], body)
  <2>1. CASE body \notin Bodies
    <3>1. published' = [published EXCEPT ![r] = published[r] \cup {}] /\ receiver' = receiver
      BY <1>1, <2>1 DEF SetResult
    <3>2. published' = published
      BY <1>t, <3>1 DEF OutboxTypeOK
    <3>q. QED
      BY <3>1, <3>2
  <2>2. CASE body \in Bodies
    <3> DEFINE p == <<rev, body>>
    <3>1. p[1] = rev
      OBVIOUS
    <3>2. result[r].rev \in Nat /\ rev = result[r].rev + 1
      <4>1. result[r].rev \in Nat
        BY <1>t DEF OutboxTypeOK, ResultRow, Revisions
      <4>2. body # result[r].body
        BY <1>1, <2>2 DEF Moves
      <4>q. QED
        BY <2>2, <4>1, <4>2 DEF NextRevision
    <3>3. published' = [published EXCEPT ![r] = published[r] \cup {p}] /\ receiver' = receiver
      BY <1>1, <2>2 DEF SetResult
    <3> HIDE DEF p, rev
    <3>4. \A q \in published[r] : q[1] \in Nat /\ q[1] <= result[r].rev
      <4>1. \A q \in published[r] : q[1] \in Nat
        BY <1>t DEF OutboxTypeOK, Revisions
      <4>2. \A q \in published[r] : q[1] <= result[r].rev
        BY <1>t DEF ResultsNumbered
      <4>q. QED
        BY <4>1, <4>2
    <3>5. \A q \in published[r] : q[1] < p[1]
      BY <3>1, <3>2, <3>4
    <3>6. p \notin published[r]
      BY <3>1, <3>2, <3>5
    <3>7. p \in published'[r] \ published[r]
      BY <1>t, <3>3, <3>6 DEF OutboxTypeOK
    <3>8. Receipt!Publish(r, p)
      BY <3>3, <3>5 DEF Receipt!Publish
    <3>q. QED
      BY <3>7, <3>8 DEF Receipt!ReceiptNext
  <2>q. QED
    BY <2>1, <2>2
<1>2. ASSUME NEW r \in Runs, OpenRun(r) \/ FinishRun(r) \/ AmendResult(r)
      PROVE  [Receipt!ReceiptNext]_<<published, receiver>>
  BY <1>1, <1>2 DEF OpenRun, FinishRun, AmendResult, Moves, Active
<1>3. ASSUME NEW s \in Senders, Post(s)
      PROVE  [Receipt!ReceiptNext]_<<published, receiver>>
  <2> DEFINE i == sender[s].id
             p == <<i.rev, i.body>>
  <2>1. i \in Ids /\ Genuine(i)
    BY <1>3 DEF Post, OutboxInv, SendersGenuine
  <2>2. CASE receiver' = receiver
    BY <1>3, <2>2 DEF Post
  <2>3. CASE receiver' # receiver
    <3>1. i.kind = "terminal" /\ Newer(i)
          /\ receiver' = [receiver EXCEPT ![i.run] = [rev |-> i.rev, body |-> i.body]]
          /\ published' = published
      BY <1>3, <2>3 DEF Post
    <3>2. i.run \in Runs /\ p \in published[i.run] /\ p[1] = i.rev /\ p[2] = i.body
      BY <2>1, <3>1 DEF Genuine, Ids, TerminalIds, NoticeIds
    <3> HIDE DEF p
    <3>3. Receipt!Receive(i.run, p)
      BY <3>1, <3>2 DEF Receipt!Receive, Newer
    <3>q. QED
      BY <3>2, <3>3 DEF Receipt!ReceiptNext
  <2>q. QED
    BY <2>2, <2>3
<1>4. ASSUME UNCHANGED <<published, receiver>>
      PROVE  [Receipt!ReceiptNext]_<<published, receiver>>
  BY <1>4
<1>5. CASE DeliveryStep
  BY <1>3, <1>4, <1>5 DEF DeliveryStep, Check, Record, Reclaim, Claim, RecoverDeadLetter
<1>6. CASE EmitStep
  BY <1>4, <1>6 DEF EmitStep, BuildIntent, WriteIntent, BeginReconcile
<1>q. QED
  BY <1>2, <1>4, <1>5, <1>6 DEF OutboxNext, RunStep, ChangeContract, Announce, Crash, ovars

\* The receiver's table goes from one published result of a run to a later one, and a run
\* publishes one content per number, whatever is lost, repeated or reordered in between:
\* the outbox implements the receipt.
THEOREM OutboxImplementsReceipt == OutboxSpec => ImplementsReceipt
<1>1. OutboxInit => Receipt!ReceiptInit
  BY DEF OutboxInit, Receipt!ReceiptInit, Receipt!Nothing
<1>2. OutboxInv /\ [OutboxNext]_ovars => [Receipt!ReceiptNext]_<<published, receiver>>
  BY ReceiptStep
<1>q. QED
  BY <1>1, <1>2, OutboxCorrect, PTL DEF OutboxSpec, ImplementsReceipt, Receipt!ReceiptSpec

-----------------------------------------------------------------------------
(* HostProcess                                                               *)

\* Of a generation before the last one the lease is released.
OneAfterTheOther ==
    \A g, h \in Gens : h < g /\ lease[g].st # "none" => lease[h].st = "released"

\* A process runs one processor for the worker.
OneThreadEach ==
    \A g, h \in Gens : g # h /\ thread[g].by = thread[h].by => Idle(g) \/ Idle(h)

\* Where a thread is, and what its lease and its supervisor can be.
PlaceOf(g) ==
    /\ thread[g].pc = "none" <=> lease[g].st = "none"
    /\ thread[g].pc # "none" => thread[g].by \in Procs
    /\ thread[g].pc \in {"begun", "unstarted"} => lease[g].st \in {"reserved", "released"}
    /\ thread[g].pc \in Launching => lease[g].st = "reserved"
    /\ thread[g].pc \in {"confirmed", "running"} => lease[g].st \in {"confirmed", "released"}
    /\ thread[g].pc \in {"none", "begun", "unstarted", "invoked"} => sup[g] = "none"
    /\ thread[g].pc \in {"ending", "reporting", "settling"} => ~Alive(g)
    /\ thread[g].pc = "done" => ~Alive(g) \/ lease[g].st = "unconfirmed"

\* While a launch is under way, nobody replaces its session file or its handle.
LaunchKept(g) ==
    /\ thread[g].pc \in Launching \ {"invoked"} => mem[thread[g].by].proc = g
    /\ thread[g].pc \in {"published", "identified", "rejecting"} => session = g

\* A harness without its supervisor is one that ignores SIGTERM.
HarnessOf(g) ==
    /\ sup[g] \in {"none", "starting", "waiting"} => child[g] = "none"
    /\ ~Alive(g) /\ child[g] = "alive" => g \in Stubborn

\* A control is about the confirmed generation, and its receipt about the same one.
ControlKnows ==
    /\ ctl.pc # "none" => ctl.gen \in Gens /\ lease[ctl.gen].st = "confirmed"
    /\ ctl.pc \in Signalling => ctl.by \in Procs
    /\ ctl.pc \in {"none", "claimed"} => ctl.by = "none"
    /\ ctl.pc \in Signalling \cup {"receipted"} => receipt.gen = ctl.gen
    /\ ctl.pc \in {"gone", "stopped", "receipted"} => ~Alive(ctl.gen)

ReceiptKnows ==
    receipt.st # "none" => /\ receipt.gen \in Gens
                           /\ lease[receipt.gen].st \in {"confirmed", "released"}

GenerationInv == \A g \in Gens : PlaceOf(g) /\ LaunchKept(g) /\ HarnessOf(g)

ProcessInv ==
    /\ ProcessTypeOK
    /\ OneAfterTheOther
    /\ OneThreadEach
    /\ GenerationInv
    /\ ControlKnows
    /\ ReceiptKnows
    /\ StopsExact
-----------------------------------------------------------------------------
(* Steps as the invariant sees them: what a thread is doing, what a lease says, *)
(* which handle a process holds.                                               *)

Moved(g, step) ==
    \A h \in Gens : /\ thread'[h].by = thread[h].by
                    /\ thread'[h].pc = IF h = g THEN step ELSE thread[h].pc

Leased(g, st) == \A h \in Gens : lease'[h].st = IF h = g THEN st ELSE lease[h].st

LeasesKept == \A h \in Gens : lease'[h].st = lease[h].st
HandlesKept == \A p \in Procs : mem'[p].proc = mem[p].proc

\* Only one generation has a lease that is neither unset nor released.
Busy(g) == lease[g].st \notin {"none", "released"}
OneBusy == \A g, h \in Gens : Busy(g) /\ Busy(h) => g = h

-----------------------------------------------------------------------------
\* A generation is not zero, which the session file holds when it names none.
LEMMA GensPositive == \A g \in Gens : g # 0 /\ g \in 1 .. MaxGen /\ g \in 0 .. MaxGen
BY LaunchesAssumption DEF Gens

\* The files of a generation are those of its run root (_host_run_root).
LEMMA RunOfRoot == ASSUME NEW g \in Gens PROVE RunOf[g] \in Roots
BY DEF Roots

\* Leases follow each other, so two of them are never in use at once.
LEMMA BusyAlone == ASSUME OneAfterTheOther PROVE OneBusy
<1> SUFFICES ASSUME NEW g \in Gens, NEW h \in Gens, Busy(g), Busy(h), g # h PROVE FALSE
  BY DEF OneBusy
<1>1. g \in Nat /\ h \in Nat BY LaunchesAssumption DEF Gens
<1>2. CASE g < h BY <1>2 DEF OneAfterTheOther, Busy
<1>3. CASE h < g BY <1>3 DEF OneAfterTheOther, Busy
<1> QED BY <1>1, <1>2, <1>3

\* Goto moves one thread and leaves its process alone.
LEMMA GotoMoves ==
    ASSUME ProcessTypeOK, NEW g \in Gens, NEW step, Goto(g, step) PROVE Moved(g, step)
BY DEF ProcessTypeOK, Goto, Moved

\* Leases keep their order when none becomes unset or set, and none is taken back.
LEMMA OrderKept ==
    ASSUME OneAfterTheOther,
           \A g \in Gens : /\ lease[g].st = "none" => lease'[g].st = "none"
                           /\ lease[g].st = "released" => lease'[g].st = "released"
    PROVE  OneAfterTheOther'
BY DEF OneAfterTheOther

\* Threads that start nothing keep to one per process.
LEMMA ThreadsKept ==
    ASSUME OneThreadEach,
           \A g \in Gens : thread'[g].by = thread[g].by /\ (Idle(g) => Idle(g)')
    PROVE  OneThreadEach'
BY DEF OneThreadEach

-----------------------------------------------------------------------------
(* Frames: one kind of change each.                                            *)

\* Supervisors end, by themselves or signalled by a control: none of them comes back.
LEMMA SignalledOnly ==
    ASSUME ProcessInv, ProcessTypeOK', UNCHANGED <<session, receipt, mem, lease, thread>>,
           \A h \in Gens : /\ HarnessOf(h)'
                           /\ Alive(h)' => Alive(h)
                           /\ sup[h] = "none" => sup'[h] = "none",
           ControlKnows'
    PROVE  ProcessInv'
<1>1. OneAfterTheOther' BY DEF ProcessInv, OneAfterTheOther
<1>2. OneThreadEach' BY DEF ProcessInv, OneThreadEach, Idle
<1>3. GenerationInv'
  BY DEF ProcessInv, GenerationInv, PlaceOf, LaunchKept
<1>5. ReceiptKnows' BY DEF ProcessInv, ReceiptKnows
<1>6. StopsExact'
  BY <1>3, <1>5 DEF ProcessInv, StopsExact, ReleasedIsDead, LiveIsReachable, ReceiptIsTrue,
     GenerationInv, HarnessOf, ReceiptKnows
<1> QED BY <1>1, <1>2, <1>3, <1>5, <1>6 DEF ProcessInv

\* So does a step of a supervisor by itself.
LEMMA SupervisorsOnly ==
    ASSUME ProcessInv, ProcessTypeOK', UNCHANGED <<session, receipt, mem, lease, thread, ctl>>,
           \A h \in Gens : /\ HarnessOf(h)'
                           /\ Alive(h)' => Alive(h)
                           /\ sup[h] = "none" => sup'[h] = "none"
    PROVE  ProcessInv'
<1>1. ControlKnows' BY DEF ProcessInv, ControlKnows
<1> QED BY <1>1, SignalledOnly

\* A run thread moves on, and may signal its supervisor; the leases, the session and the
\* handles stay.
LEMMA ThreadOnly ==
    ASSUME ProcessInv, ProcessTypeOK', NEW g \in Gens, NEW step, Moved(g, step), ~Idle(g),
           UNCHANGED <<session, receipt, ctl>>, LeasesKept, HandlesKept,
           \A h \in Gens : /\ HarnessOf(h)'
                           /\ Alive(h)' => Alive(h)
                           /\ sup[h] = "none" => sup'[h] = "none",
           PlaceOf(g)', LaunchKept(g)',
           step \in {"confirmed", "running"} => thread[g].pc \in {"confirmed", "running"}
    PROVE  ProcessInv'
<1>1. OneAfterTheOther' BY OrderKept DEF ProcessInv, LeasesKept
<1>2. OneThreadEach' BY ThreadsKept DEF ProcessInv, Moved, Idle
<1>3. ASSUME NEW h \in Gens PROVE PlaceOf(h)'
  <2>1. CASE h = g BY <2>1
  <2>2. CASE h # g
    <3>1. /\ thread'[h].pc = thread[h].pc /\ thread'[h].by = thread[h].by
          /\ lease'[h].st = lease[h].st
      BY <2>2 DEF Moved, LeasesKept
    <3> QED BY <3>1 DEF ProcessInv, GenerationInv, PlaceOf
  <2> QED BY <2>1, <2>2
<1>4. ASSUME NEW h \in Gens PROVE LaunchKept(h)'
  <2>1. CASE h = g BY <2>1
  <2>2. CASE h # g
    <3>1. thread[h].pc \in Launching => thread[h].by \in Procs
      BY DEF ProcessInv, GenerationInv, PlaceOf, Launching
    <3> QED BY <2>2, <3>1 DEF ProcessInv, GenerationInv, LaunchKept, Moved, HandlesKept, Launching
  <2> QED BY <2>1, <2>2
<1>6. ControlKnows' BY DEF ProcessInv, ControlKnows, LeasesKept
<1>7. ReceiptKnows' BY DEF ProcessInv, ReceiptKnows, LeasesKept
<1>8. ReleasedIsDead' BY DEF ProcessInv, StopsExact, ReleasedIsDead, LeasesKept
<1>9. LiveIsReachable'
  <2>1. \A h \in Gens : thread[h].pc \in {"confirmed", "running"} => thread[h].by \in Procs
    BY DEF ProcessInv, GenerationInv, PlaceOf
  <2> QED BY <2>1 DEF ProcessInv, StopsExact, LiveIsReachable, LeasesKept, HandlesKept, Moved
<1>10. ReceiptIsTrue'
  BY <1>7 DEF ProcessInv, StopsExact, ReceiptIsTrue, ReceiptKnows, HarnessOf
<1> QED BY <1>1, <1>2, <1>3, <1>4, <1>6, <1>7, <1>8, <1>9, <1>10
        DEF ProcessInv, GenerationInv, StopsExact

\* A control or another process acts: the threads, the leases, the supervisors and the
\* handles stay.
LEMMA ControlOnly ==
    ASSUME ProcessInv, ProcessTypeOK',
           UNCHANGED <<sup, child, session, lease, thread>>, HandlesKept,
           ControlKnows', ReceiptKnows', ReceiptIsTrue'
    PROVE  ProcessInv'
<1>1. OneAfterTheOther' BY DEF ProcessInv, OneAfterTheOther
<1>2. OneThreadEach' BY DEF ProcessInv, OneThreadEach, Idle
<1>3. ASSUME NEW h \in Gens PROVE PlaceOf(h)' /\ HarnessOf(h)'
  BY DEF ProcessInv, GenerationInv, PlaceOf, HarnessOf, Alive
<1>4. ASSUME NEW h \in Gens PROVE LaunchKept(h)'
  BY DEF ProcessInv, GenerationInv, PlaceOf, LaunchKept, HandlesKept, Launching
<1>5. ReleasedIsDead' BY DEF ProcessInv, StopsExact, ReleasedIsDead, Alive
<1>6. LiveIsReachable'
  BY DEF ProcessInv, StopsExact, LiveIsReachable, HandlesKept, Alive, GenerationInv, PlaceOf
<1> QED BY <1>1, <1>2, <1>3, <1>4, <1>5, <1>6 DEF ProcessInv, GenerationInv, StopsExact

\* The lease of one generation changes while its thread is where it was or moves on, and
\* no supervisor, session or handle changes.
LEMMA LeaseOnly ==
    ASSUME ProcessInv, ProcessTypeOK', NEW g \in Gens, NEW st, Leased(g, st),
           NEW step, Moved(g, step), Idle(g) => step = thread[g].pc,
           UNCHANGED <<sup, child, session, receipt, mem>>,
           st # "none", lease[g].st = "released" => st = "released",
           lease[g].st # "none",
           PlaceOf(g)', LaunchKept(g)', ControlKnows',
           \/ receipt.gen # g \/ st \in {"confirmed", "released"}
           \/ lease[g].st \notin {"confirmed", "released"},
           st = "released" => ~Alive(g),
           st = "confirmed" => LiveIsReachable'
    PROVE  ProcessInv'
<1>1. OneAfterTheOther' BY OrderKept DEF ProcessInv, Leased
<1>2. OneThreadEach' BY ThreadsKept DEF ProcessInv, Moved, Idle
<1>3. ASSUME NEW h \in Gens PROVE PlaceOf(h)'
  <2>1. CASE h = g BY <2>1
  <2>2. CASE h # g BY <2>2 DEF ProcessInv, GenerationInv, PlaceOf, Alive, Moved, Leased
  <2> QED BY <2>1, <2>2
<1>4. ASSUME NEW h \in Gens PROVE LaunchKept(h)'
  <2>1. CASE h = g BY <2>1
  <2>2. CASE h # g BY <2>2 DEF ProcessInv, GenerationInv, LaunchKept, Moved
  <2> QED BY <2>1, <2>2
<1>5. ASSUME NEW h \in Gens PROVE HarnessOf(h)'
  BY DEF ProcessInv, GenerationInv, HarnessOf, Alive
<1>6. ReceiptKnows' BY DEF ProcessInv, ReceiptKnows, Leased
<1>7. ReleasedIsDead' BY DEF ProcessInv, StopsExact, ReleasedIsDead, Leased, Alive
<1>8. LiveIsReachable'
  <2>1. CASE st = "confirmed" BY <2>1
  <2>2. CASE st # "confirmed"
    BY <2>2 DEF ProcessInv, StopsExact, LiveIsReachable, Leased, Moved, Alive
  <2> QED BY <2>1, <2>2
<1>9. ReceiptIsTrue' BY DEF ProcessInv, StopsExact, ReceiptIsTrue, Alive
<1> QED BY <1>1, <1>2, <1>3, <1>4, <1>5, <1>6, <1>7, <1>8, <1>9
        DEF ProcessInv, GenerationInv, StopsExact

\* A supervisor that is gone was the only one that could be confirmed: its session and its
\* handle may go.
LEMMA HandlesOnly ==
    ASSUME ProcessInv, ProcessTypeOK', NEW g \in Gens, ~Alive(g), Busy(g),
           thread[g].pc \notin Launching,
           UNCHANGED <<sup, child, lease, thread, receipt>>, ControlKnows'
    PROVE  ProcessInv'
<1>0. OneBusy BY BusyAlone DEF ProcessInv
<1>1. OneAfterTheOther' BY DEF ProcessInv, OneAfterTheOther
<1>2. OneThreadEach' BY DEF ProcessInv, OneThreadEach, Idle
<1>3. ASSUME NEW h \in Gens PROVE PlaceOf(h)' /\ HarnessOf(h)'
  BY DEF ProcessInv, GenerationInv, PlaceOf, HarnessOf, Alive
<1>4. ASSUME NEW h \in Gens PROVE LaunchKept(h)'
  <2>1. thread[h].pc \notin Launching
    BY <1>0 DEF ProcessInv, GenerationInv, PlaceOf, OneBusy, Busy
  <2> QED BY <2>1 DEF LaunchKept, Launching
<1>5. ReceiptKnows' BY DEF ProcessInv, ReceiptKnows
<1>6. ReleasedIsDead' /\ ReceiptIsTrue'
  BY DEF ProcessInv, StopsExact, ReleasedIsDead, ReceiptIsTrue, Alive
<1>7. LiveIsReachable' BY <1>0 DEF LiveIsReachable, OneBusy, Busy, Alive
<1> QED BY <1>1, <1>2, <1>3, <1>4, <1>5, <1>6, <1>7 DEF ProcessInv, GenerationInv, StopsExact

-----------------------------------------------------------------------------
(* Types, one variable at a time.                                              *)

FileRow == [permit : BOOLEAN, ready : 0 .. MaxGen, exit : {"none", "ok", "bad"}]
SlotRow == [tok : 0 .. MaxGen, lane : BOOLEAN, listed : {"no", "set", "name"}]
ReasonRow == [Gens -> Ops \cup {"none"}]
MemRow == [proc : 0 .. MaxGen, slot : SlotRow, reason : ReasonRow]
LeaseRow == [st : {"none", "reserved", "confirmed", "unconfirmed", "released"},
             by : Procs \cup {"none"}, ident : BOOLEAN, stale : BOOLEAN]
ThreadSteps == Launching \cup {"none", "begun", "confirmed", "running", "ending", "reporting",
                               "settling", "done", "unstarted", "lost"}
Outs == Ops \cup {"none", "error", "completed", "failed"}
ThreadRow == [pc : ThreadSteps, by : Procs \cup {"none"}, owned : BOOLEAN, out : Outs]
ControlSteps == Signalling \cup {"none", "claimed", "receipted"}
ControlRow == [pc : ControlSteps, op : Ops \cup {"none"}, gen : 0 .. MaxGen,
               by : Procs \cup {"none"}, exp : 0 .. MaxGen, proc : 0 .. MaxGen, local : BOOLEAN]
ReceiptRow == [gen : 0 .. MaxGen, op : Ops \cup {"none"}, st : {"none", "requested", "confirmed"}]
SpentRow == [controls : 0 .. MaxControls, crashes : 0 .. MaxCrashes, mishaps : 0 .. MaxMishaps]
SupStates == Supervised \cup {"none", "dead"}
ChildStates == {"none", "alive", "dead"}

OsTyped == /\ lane \in {"conversation", "mission"}
           /\ sup \in [Gens -> SupStates]
           /\ child \in [Gens -> ChildStates]
           /\ files \in [Roots -> FileRow]
SharedTyped == session \in 0 .. MaxGen /\ receipt \in ReceiptRow
MemTyped == mem \in [Procs -> MemRow]
LeaseTyped == lease \in [Gens -> LeaseRow]
ThreadTyped == thread \in [Gens -> ThreadRow]
ControlTyped == ctl \in ControlRow
SpentTyped == spent \in SpentRow

\* The type invariant by parts.
LEMMA TypeParts ==
    ProcessTypeOK <=> OsTyped /\ SharedTyped /\ MemTyped /\ LeaseTyped /\ ThreadTyped
                        /\ ControlTyped /\ SpentTyped
BY DEF ProcessTypeOK, OsTyped, SharedTyped, MemTyped, LeaseTyped, ThreadTyped, ControlTyped,
       SpentTyped, FileRow, SlotRow, ReasonRow, MemRow, LeaseRow, ThreadSteps, Outs, ThreadRow,
       ControlSteps, ControlRow, ReceiptRow, SpentRow, SupStates, ChildStates

\* The same after a step.
LEMMA TypePartsNext ==
    ProcessTypeOK' <=> OsTyped' /\ SharedTyped' /\ MemTyped' /\ LeaseTyped' /\ ThreadTyped'
                        /\ ControlTyped' /\ SpentTyped'
BY DEF ProcessTypeOK, OsTyped, SharedTyped, MemTyped, LeaseTyped, ThreadTyped, ControlTyped,
       SpentTyped, FileRow, SlotRow, ReasonRow, MemRow, LeaseRow, ThreadSteps, Outs, ThreadRow,
       ControlSteps, ControlRow, ReceiptRow, SpentRow, SupStates, ChildStates

\* Variables that a step leaves alone keep their types.
LEMMA UnchangedTypes ==
    /\ UNCHANGED osVars /\ OsTyped => OsTyped'
    /\ UNCHANGED <<session, receipt>> /\ SharedTyped => SharedTyped'
    /\ UNCHANGED mem /\ MemTyped => MemTyped'
    /\ UNCHANGED lease /\ LeaseTyped => LeaseTyped'
    /\ UNCHANGED thread /\ ThreadTyped => ThreadTyped'
    /\ UNCHANGED ctl /\ ControlTyped => ControlTyped'
    /\ UNCHANGED spent /\ SpentTyped => SpentTyped'
BY DEF osVars, OsTyped, SharedTyped, MemTyped, LeaseTyped, ThreadTyped, ControlTyped, SpentTyped

\* A thread goes to one of its steps.
LEMMA GotoTypes ==
    ASSUME ThreadTyped, NEW g \in Gens, NEW step \in ThreadSteps, Goto(g, step) PROVE ThreadTyped'
BY DEF ThreadTyped, ThreadRow, Goto

\* A supervisor changes its state.
LEMMA SupTypes ==
    ASSUME OsTyped, NEW g \in Gens, NEW s \in SupStates, sup' = [sup EXCEPT ![g] = s],
           UNCHANGED <<lane, child, files>>
    PROVE  OsTyped'
BY DEF OsTyped

\* A supervisor changes its state, with or without an exit marker and its harness.
LEMMA MarkerTypes ==
    ASSUME OsTyped, NEW g \in Gens, NEW s \in SupStates, sup' = [sup EXCEPT ![g] = s],
           NEW code \in {"none", "ok", "bad"}, NEW c \in ChildStates,
           files' = files \/ files' = [files EXCEPT ![RunOf[g]].exit = code],
           child' = child \/ child' = [child EXCEPT ![g] = c],
           UNCHANGED lane
    PROVE  OsTyped'
BY RunOfRoot DEF OsTyped, FileRow

\* SIGTERM to a supervisor's group.
LEMMA TerminateTypes ==
    ASSUME OsTyped, NEW g \in Gens, Terminate(g) PROVE OsTyped'
<1> PICK s : s = CASE sup[g] \in {"starting", "waiting"} -> "dead"
                   [] sup[g] = "authoring" -> "stopping"
                   [] OTHER -> sup[g]
  OBVIOUS
<1>1. s \in SupStates BY DEF OsTyped, SupStates, Supervised
<1>2. sup' = [sup EXCEPT ![g] = s] BY DEF Terminate
<1>3. "dead" \in ChildStates BY DEF ChildStates
<1> QED BY <1>1, <1>2, <1>3, MarkerTypes DEF Terminate

\* SIGTERM, the wait and SIGKILL in one call.
LEMMA StopTypes ==
    ASSUME OsTyped, NEW g \in Gens, StopAndWait(g) PROVE OsTyped'
<1> PICK s : s = IF Alive(g) THEN "dead" ELSE sup[g] OBVIOUS
<1> PICK c : c = IF child[g] = "alive" /\ g \notin Stubborn THEN "dead" ELSE child[g] OBVIOUS
<1>1. s \in SupStates /\ c \in ChildStates BY DEF OsTyped, SupStates, ChildStates
<1>2. sup' = [sup EXCEPT ![g] = s] /\ child' = [child EXCEPT ![g] = c] BY DEF StopAndWait
<1> QED BY <1>1, <1>2, MarkerTypes DEF StopAndWait

\* SIGKILL to a supervisor.
LEMMA KillTypes ==
    ASSUME OsTyped, NEW g \in Gens, KillSupervisor(g) PROVE OsTyped'
BY SupTypes DEF KillSupervisor, SupStates

\* The start permit of a run root.
LEMMA PermitTypes ==
    ASSUME OsTyped, NEW r \in Roots, files' = Permitted(r), UNCHANGED <<lane, sup, child>>
    PROVE  OsTyped'
<1> PICK row : row = [files[r] EXCEPT !.permit = files[r].permit \/ files[r].exit = "none"] OBVIOUS
<1>1. row \in FileRow BY DEF OsTyped, FileRow
<1>2. files' = [files EXCEPT ![r] = row] BY DEF Permitted
<1> QED BY <1>1, <1>2 DEF OsTyped

\* A process forgets its handle and gets another slot.
LEMMA HandleTypes ==
    ASSUME MemTyped, NEW p \in Procs, NEW slot \in SlotRow,
           mem' = [mem EXCEPT ![p].proc = 0, ![p].slot = slot]
    PROVE  MemTyped'
<1> PICK row : row = [mem[p] EXCEPT !.proc = 0, !.slot = slot] OBVIOUS
<1>0. mem[p] \in MemRow /\ 0 \in 0 .. MaxGen BY LaunchesAssumption DEF MemTyped
<1>1. row \in MemRow BY <1>0 DEF MemRow
<1>2. mem' = [mem EXCEPT ![p] = row] OBVIOUS
<1> QED BY <1>1, <1>2 DEF MemTyped

\* A finalized generation gives back its handle and its slot.
LEMMA FinalizeTypes ==
    ASSUME MemTyped, NEW p \in Procs, NEW clear, FinalizeOwned(p, clear) PROVE MemTyped'
<1> PICK slot : slot = Freed(mem[p].slot) OBVIOUS
<1>1. slot \in SlotRow BY LaunchesAssumption DEF MemTyped, MemRow, SlotRow, Freed
<1> QED BY <1>1, HandleTypes DEF FinalizeOwned

\* A process gets another slot.
LEMMA SlotTypes ==
    ASSUME MemTyped, NEW p \in Procs, NEW slot \in SlotRow, mem' = [mem EXCEPT ![p].slot = slot]
    PROVE  MemTyped'
BY DEF MemTyped, MemRow

\* A slot released for a token is a slot.
LEMMA ReleasedSlotTypes ==
    ASSUME MemTyped, NEW p \in Procs, NEW tok PROVE ReleasedSlot(mem[p].slot, tok) \in SlotRow
BY LaunchesAssumption DEF MemTyped, MemRow, SlotRow, ReleasedSlot, Freed

\* A process notes or forgets why a generation stops.
LEMMA ReasonTypes ==
    ASSUME MemTyped, NEW p \in Procs, NEW g \in Gens, NEW op \in Ops \cup {"none"},
           mem' = [mem EXCEPT ![p].reason[g] = op]
    PROVE  MemTyped'
<1> PICK rs : rs = [mem[p].reason EXCEPT ![g] = op] OBVIOUS
<1>1. rs \in ReasonRow BY DEF MemTyped, MemRow, ReasonRow
<1>2. mem' = [mem EXCEPT ![p].reason = rs] OBVIOUS
<1> QED BY <1>1, <1>2 DEF MemTyped, MemRow

\* A lease changes its state.
LEMMA LeaseTypes ==
    ASSUME LeaseTyped, NEW g \in Gens,
           NEW st \in {"none", "reserved", "confirmed", "unconfirmed", "released"},
           lease' = [lease EXCEPT ![g].st = st]
    PROVE  LeaseTyped'
BY DEF LeaseTyped, LeaseRow

\* No control, and a claimed one.
LEMMA ClaimedTypes ==
    ASSUME NEW op \in Ops \cup {"none"}, NEW g \in 0 .. MaxGen
    PROVE  /\ NoControl \in ControlRow
           /\ [NoControl EXCEPT !.pc = "claimed", !.op = op, !.gen = g] \in ControlRow
<1>1. 0 \in 0 .. MaxGen BY LaunchesAssumption
<1>2. NoControl \in ControlRow BY <1>1 DEF NoControl, ControlRow, ControlSteps
<1>3. "claimed" \in ControlSteps BY DEF ControlSteps
<1> QED BY <1>2, <1>3 DEF ControlRow

\* Mishaps and absences are counted up to their bounds.
LEMMA SpentTypes == ASSUME SpentTyped, Mishap \/ Absence PROVE SpentTyped'
<1>1. CASE Mishap
  <2> PICK n : n = spent.mishaps + 1 OBVIOUS
  <2>1. n \in 0 .. MaxMishaps
    BY <1>1, LaunchesAssumption DEF SpentTyped, SpentRow, Mishap
  <2>2. spent' = [spent EXCEPT !.mishaps = n] BY <1>1 DEF Mishap
  <2> QED BY <2>1, <2>2 DEF SpentTyped, SpentRow
<1>2. CASE Absence
  <2> PICK n : n = spent.crashes + 1 OBVIOUS
  <2>1. n \in 0 .. MaxCrashes
    BY <1>2, LaunchesAssumption DEF SpentTyped, SpentRow, Absence
  <2>2. spent' = [spent EXCEPT !.crashes = n] BY <1>2 DEF Absence
  <2> QED BY <2>1, <2>2 DEF SpentTyped, SpentRow
<1> QED BY <1>1, <1>2

-----------------------------------------------------------------------------
(* Types, one operation at a time.                                             *)

\* A step of a supervisor keeps the types of the files and processes it changes.
LEMMA SupervisorTypes ==
    ASSUME ProcessTypeOK, NEW g \in Gens, SupervisorStep(g) PROVE ProcessTypeOK'
<1>0. /\ OsTyped /\ SharedTyped /\ MemTyped /\ LeaseTyped /\ ThreadTyped /\ ControlTyped
      /\ SpentTyped
  BY TypeParts
<1>1. UNCHANGED <<session, receipt, mem, lease, thread, ctl, spent>>
  BY DEF SupervisorStep, SupervisorReady, SupervisorAuthors, HandshakeTimesOut, HarnessEnds,
         SupervisorStops, SupervisorEnds
<1>2. OsTyped'
  <2>0. /\ {"waiting", "authoring", "dead"} \subseteq SupStates
        /\ {"alive", "dead"} \subseteq ChildStates
    BY DEF SupStates, ChildStates, Supervised
  <2>1. CASE SupervisorReady(g)
    BY <1>0, <2>0, <2>1, RunOfRoot, GensPositive DEF SupervisorReady, OsTyped, FileRow
  <2>2. CASE SupervisorAuthors(g) BY <1>0, <2>0, <2>2 DEF SupervisorAuthors, OsTyped
  <2>3. CASE HandshakeTimesOut(g)
    BY <1>0, <2>0, <2>3, MarkerTypes DEF HandshakeTimesOut, SupervisorEnds
  <2>4. CASE HarnessEnds(g) BY <1>0, <2>0, <2>4, MarkerTypes DEF HarnessEnds, SupervisorEnds
  <2>5. CASE SupervisorStops(g)
    BY <1>0, <2>0, <2>5, MarkerTypes DEF SupervisorStops, SupervisorEnds
  <2> QED BY <2>1, <2>2, <2>3, <2>4, <2>5 DEF SupervisorStep
<1> QED BY <1>0, <1>1, <1>2, UnchangedTypes, TypePartsNext

\* So does a step of a run thread.
LEMMA ThreadTypes ==
    ASSUME ProcessTypeOK, NEW g \in Gens, PlaceOf(g), ThreadStep(g) PROVE ProcessTypeOK'
<1>0. /\ OsTyped /\ SharedTyped /\ MemTyped /\ LeaseTyped /\ ThreadTyped /\ ControlTyped
      /\ SpentTyped
  BY TypeParts
<1>b. thread[g].pc # "none" => thread[g].by \in Procs BY DEF PlaceOf
<1>s. /\ {"confirmed", "ending", "reporting", "settling", "done"} \subseteq ThreadSteps
      /\ {"invoked", "spawned", "ready"} \subseteq ThreadSteps
      /\ {"published", "identified", "rejecting"} \subseteq ThreadSteps
  BY DEF ThreadSteps, Launching
<1>1. ASSUME NEW p \in Procs, Begin(p, g) PROVE ProcessTypeOK'
  <2>1. LeaseTyped' BY <1>0, <1>1 DEF Begin, LeaseTyped, LeaseRow
  <2>2. ThreadTyped' BY <1>0, <1>1, ZenonT(30) DEF Begin, ThreadTyped, ThreadRow, ThreadSteps
  <2> QED BY <1>0, <1>1, <2>1, <2>2, UnchangedTypes, TypePartsNext DEF Begin
<1>2. CASE Invoke(g)
  <2>1. ThreadTyped' BY <1>0, <1>2, <1>s, GotoTypes DEF Invoke
  <2> QED BY <1>0, <1>2, <2>1, UnchangedTypes, TypePartsNext DEF Invoke
<1>3. CASE Spawn(g)
  <2>1. ThreadTyped' BY <1>0, <1>3, <1>s, GotoTypes DEF Spawn
  <2>2. OsTyped' BY <1>0, <1>3, SupTypes DEF Spawn, SupStates, Supervised
  <2>3. MemTyped'
    BY <1>0, <1>3, <1>b, GensPositive DEF Spawn, At, MemTyped, MemRow, SlotRow
  <2> QED BY <1>0, <1>3, <2>1, <2>2, <2>3, UnchangedTypes, TypePartsNext DEF Spawn
<1>4. CASE SeeReady(g)
  <2>1. ThreadTyped' BY <1>0, <1>4, <1>s, GotoTypes DEF SeeReady
  <2> QED BY <1>0, <1>4, <2>1, UnchangedTypes, TypePartsNext DEF SeeReady
<1>5. CASE NotReady(g)
  <2>1. ThreadTyped' BY <1>0, <1>5, ZenonT(30) DEF NotReady, ThreadTyped, ThreadRow, ThreadSteps, Outs
  <2>2. OsTyped' BY <1>0, <1>5, TerminateTypes DEF NotReady
  <2> QED BY <1>0, <1>5, <2>1, <2>2, SpentTypes, UnchangedTypes, TypePartsNext DEF NotReady
<1>6. CASE Publish(g)
  <2>1. ThreadTyped' BY <1>0, <1>6, <1>s, GotoTypes DEF Publish
  <2>2. SharedTyped' BY <1>0, <1>6, GensPositive DEF Publish, SharedTyped
  <2> QED BY <1>0, <1>6, <2>1, <2>2, UnchangedTypes, TypePartsNext DEF Publish
<1>7. CASE Identify(g)
  <2>1. ThreadTyped' BY <1>0, <1>7, <1>s, GotoTypes DEF Identify
  <2>2. LeaseTyped'
    <3> PICK i : i = (lease[g].ident \/ ~lease[g].stale) OBVIOUS
    <3>1. i \in BOOLEAN BY <1>0 DEF LeaseTyped, LeaseRow
    <3>2. lease' = [lease EXCEPT ![g].ident = i] BY <1>7 DEF Identify
    <3> QED BY <1>0, <3>1, <3>2 DEF LeaseTyped, LeaseRow
  <2> QED BY <1>0, <1>7, <2>1, <2>2, UnchangedTypes, TypePartsNext DEF Identify
<1>8. CASE Confirm(g)
  <2>1. ThreadTyped' BY <1>0, <1>8, <1>s, GotoTypes DEF Confirm
  <2>2. LeaseTyped' BY <1>0, <1>8 DEF Confirm, LeaseTyped, LeaseRow
  <2> QED BY <1>0, <1>8, <2>1, <2>2, UnchangedTypes, TypePartsNext DEF Confirm
<1>9. CASE Reject(g)
  <2>1. ThreadTyped' BY <1>0, <1>9, <1>s, GotoTypes DEF Reject
  <2>2. OsTyped' BY <1>0, <1>9, TerminateTypes DEF Reject
  <2>3. SpentTyped' BY <1>0, <1>9, SpentTypes, UnchangedTypes DEF Reject
  <2> QED BY <1>0, <1>9, <2>1, <2>2, <2>3, UnchangedTypes, TypePartsNext DEF Reject
<1>10. CASE RejectKills(g)
  BY <1>0, <1>10, KillTypes, UnchangedTypes, TypePartsNext DEF RejectKills
<1>11. CASE RejectCleans(g)
  <2>1. ThreadTyped' BY <1>0, <1>11, ZenonT(30) DEF RejectCleans, ThreadTyped, ThreadRow, ThreadSteps, Outs
  <2>2. SharedTyped' BY <1>0, <1>11, LaunchesAssumption DEF RejectCleans, SharedTyped
  <2>3. MemTyped'
    <3> PICK s : s = ReleasedSlot(mem[thread[g].by].slot, g) OBVIOUS
    <3>1. s \in SlotRow BY <1>0, <1>b, <1>11, ReleasedSlotTypes DEF RejectCleans, At
    <3>2. mem' = [mem EXCEPT ![thread[g].by].proc = 0, ![thread[g].by].slot = s]
      BY <1>11 DEF RejectCleans
    <3> QED BY <1>0, <1>b, <1>11, <3>1, <3>2, HandleTypes DEF RejectCleans, At
  <2> QED BY <1>0, <1>11, <2>1, <2>2, <2>3, UnchangedTypes, TypePartsNext DEF RejectCleans
<1>12. CASE RejectUnconfirmed(g)
  <2>1. ThreadTyped' BY <1>0, <1>12, <1>s, GotoTypes DEF RejectUnconfirmed
  <2>2. LeaseTyped' BY <1>0, <1>12, LeaseTypes DEF RejectUnconfirmed
  <2> QED BY <1>0, <1>12, <2>1, <2>2, SpentTypes, UnchangedTypes, TypePartsNext
          DEF RejectUnconfirmed
<1>13. CASE Permit(g)
  <2>1. ThreadTyped' BY <1>0, <1>13 DEF Permit, ThreadTyped, ThreadRow, ThreadSteps, Outs
  <2>2. session # 0 => session \in Gens BY <1>0 DEF SharedTyped, Gens
  <2>3. OsTyped'
    <3>1. CASE session = 0 BY <1>0, <1>13, <3>1 DEF Permit, OsTyped
    <3>2. CASE session # 0 BY <1>0, <1>13, <2>2, <3>2, RunOfRoot, PermitTypes DEF Permit
    <3> QED BY <3>1, <3>2
  <2> QED BY <1>0, <1>13, <2>1, <2>3, UnchangedTypes, TypePartsNext DEF Permit
<1>14. CASE Ended(g)
  <2>1. ThreadTyped' BY <1>0, <1>14, <1>s, GotoTypes DEF Ended
  <2> QED BY <1>0, <1>14, <2>1, UnchangedTypes, TypePartsNext DEF Ended
<1>15. CASE Finish(g)
  <2>1. ThreadTyped'
    <3>1. "reporting" \in ThreadSteps /\ "settling" \in ThreadSteps /\ "error" \in Outs
      BY DEF ThreadSteps, Outs
    <3>2. CASE thread' = [thread EXCEPT ![g].pc = "settling", ![g].out = "error"]
      BY <1>0, <3>1, <3>2 DEF ThreadTyped, ThreadRow
    <3>3. CASE Goto(g, IF thread[g].out = "none" THEN "reporting" ELSE "settling")
      BY <1>0, <3>1, <3>3, GotoTypes
    <3> QED BY <1>15, <3>2, <3>3 DEF Finish
  <2>2. SharedTyped' BY <1>0, <1>15, LaunchesAssumption DEF Finish, FinalizeOwned, SharedTyped
  <2>3. MemTyped' BY <1>0, <1>b, <1>15, FinalizeTypes, UnchangedTypes DEF Finish, At
  <2> QED BY <1>0, <1>15, <2>1, <2>2, <2>3, UnchangedTypes, TypePartsNext DEF Finish
<1>16. CASE Report(g)
  <2>0. thread[g].by \in Procs BY <1>b, <1>16 DEF Report, At
  <2>1. ThreadTyped'
    <3> PICK o : o = IF mem[thread[g].by].reason[g] # "none" THEN mem[thread[g].by].reason[g]
                     ELSE IF files[RunOf[g]].exit = "ok" THEN "completed" ELSE "failed"
      OBVIOUS
    <3>1. o \in Outs BY <1>0, <2>0 DEF MemTyped, MemRow, ReasonRow, Outs
    <3>2. thread' = [thread EXCEPT ![g].pc = "settling", ![g].out = o] BY <1>16 DEF Report
    <3> PICK row : row = [thread[g] EXCEPT !.pc = "settling", !.out = o] OBVIOUS
    <3>3. row \in ThreadRow BY <1>0, <3>1 DEF ThreadTyped, ThreadRow, ThreadSteps
    <3>4. thread' = [thread EXCEPT ![g] = row] BY <3>2
    <3> QED BY <1>0, <3>3, <3>4 DEF ThreadTyped
  <2>2. MemTyped' BY <1>0, <1>16, <2>0, ReasonTypes DEF Report
  <2> QED BY <1>0, <1>16, <2>1, <2>2, UnchangedTypes, TypePartsNext DEF Report
<1>17. CASE SettleRun(g)
  <2>1. ThreadTyped' BY <1>0, <1>17, <1>s, GotoTypes DEF SettleRun
  <2>2. LeaseTyped' BY <1>0, <1>17, LeaseTypes, UnchangedTypes DEF SettleRun
  <2> QED BY <1>0, <1>17, <2>1, <2>2, UnchangedTypes, TypePartsNext DEF SettleRun
<1> QED BY <1>1, <1>2, <1>3, <1>4, <1>5, <1>6, <1>7, <1>8, <1>9, <1>10, <1>11, <1>12, <1>13,
           <1>14, <1>15, <1>16, <1>17 DEF ThreadStep

\* So does a step of a control.
LEMMA ControlTypes ==
    ASSUME ProcessTypeOK, ControlKnows, ControlStep PROVE ProcessTypeOK'
<1>0. /\ OsTyped /\ SharedTyped /\ MemTyped /\ LeaseTyped /\ ThreadTyped /\ ControlTyped
      /\ SpentTyped
  BY TypeParts
<1>g. ctl.pc # "none" => ctl.gen \in Gens BY DEF ControlKnows
<1>b. ctl.pc \in Signalling => ctl.by \in Procs BY DEF ControlKnows
<1>1. ASSUME NEW op \in Ops, ClaimControl(op) PROVE ProcessTypeOK'
  <2>1. ControlTyped'
    <3>1. PICK h \in Gens : ctl' = [NoControl EXCEPT !.pc = "claimed", !.op = op, !.gen = h]
      BY <1>1 DEF ClaimControl
    <3> QED BY <3>1, ClaimedTypes, GensPositive DEF ControlTyped
  <2>2. SpentTyped'
    <3> PICK n : n = spent.controls + 1 OBVIOUS
    <3>1. n \in 0 .. MaxControls
      BY <1>0, <1>1, LaunchesAssumption DEF SpentTyped, SpentRow, ClaimControl
    <3>2. spent' = [spent EXCEPT !.controls = n] BY <1>1 DEF ClaimControl
    <3> QED BY <1>0, <3>1, <3>2 DEF SpentTyped, SpentRow
  <2> QED BY <1>0, <1>1, <2>1, <2>2, UnchangedTypes, TypePartsNext DEF ClaimControl
<1>2. ASSUME NEW p \in Procs, Capture(p) PROVE ProcessTypeOK'
  <2>0. ctl.gen \in Gens /\ ctl.op \in Ops \cup {"none"}
    BY <1>0, <1>2, <1>g DEF Capture, ControlTyped, ControlRow
  <2>1. ControlTyped'
    BY <1>0, <1>2 DEF Capture, ControlTyped, ControlRow, ControlSteps, Signalling, SharedTyped
  <2>2. SharedTyped'
    BY <1>0, <1>2, <2>0 DEF Capture, ControlTyped, ControlRow, SharedTyped, ReceiptRow
  <2>3. MemTyped' BY <1>0, <1>2, <2>0, ReasonTypes DEF Capture
  <2> QED BY <1>0, <1>2, <2>1, <2>2, <2>3, UnchangedTypes, TypePartsNext DEF Capture
<1>3. ASSUME GiveUp, ctl.pc \in Signalling PROVE MemTyped' /\ ControlTyped'
  <2>1. MemTyped' BY <1>0, <1>b, <1>g, <1>3, ReasonTypes DEF GiveUp, Signalling
  <2>2. ControlTyped'
    <3>1. ctl.op \in Ops \cup {"none"} /\ ctl.gen \in 0 .. MaxGen
      BY <1>0 DEF ControlTyped, ControlRow
    <3> QED BY <1>3, <3>1, ClaimedTypes DEF GiveUp, ControlTyped
  <2> QED BY <2>1, <2>2
<1>4. ASSUME FinalizeOwned(ctl.by, TRUE), ctl' = [ctl EXCEPT !.pc = "stopped"],
             ctl.pc \in Signalling
      PROVE  MemTyped' /\ ControlTyped' /\ session' \in 0 .. MaxGen
  <2>1. MemTyped' BY <1>0, <1>b, <1>4, FinalizeTypes
  <2>2. ControlTyped' BY <1>0, <1>4 DEF ControlTyped, ControlRow, ControlSteps, Signalling
  <2>3. session' \in 0 .. MaxGen BY <1>4, LaunchesAssumption DEF FinalizeOwned
  <2> QED BY <2>1, <2>2, <2>3
<1>5. CASE Aim
  <2>0. ctl.pc \in Signalling /\ ctl.by \in Procs BY <1>5, <1>b DEF Aim, Signalling
  <2>1. ASSUME GiveUp, UNCHANGED session PROVE ProcessTypeOK'
    <3>1. SharedTyped' BY <1>0, <1>5, <2>1, UnchangedTypes DEF Aim
    <3> QED BY <1>0, <1>3, <1>5, <2>0, <2>1, <3>1, UnchangedTypes, TypePartsNext DEF Aim
  <2>2. ASSUME ctl' = [ctl EXCEPT !.pc = "aimed", !.proc = mem[ctl.by].proc,
                                  !.local = (LocalProc(ctl.by) # 0)],
               UNCHANGED <<mem, session>>
        PROVE  ProcessTypeOK'
    <3>1. ControlTyped'
      <4>1. mem[ctl.by].proc \in 0 .. MaxGen BY <1>0, <2>0 DEF MemTyped, MemRow
      <4> QED BY <1>0, <2>2, <4>1 DEF ControlTyped, ControlRow, ControlSteps, Signalling
    <3>2. SharedTyped' BY <1>0, <1>5, <2>2, UnchangedTypes DEF Aim
    <3> QED BY <1>0, <1>5, <2>2, <3>1, <3>2, UnchangedTypes, TypePartsNext DEF Aim
  <2>3. ASSUME FinalizeOwned(ctl.by, TRUE), ctl' = [ctl EXCEPT !.pc = "stopped"]
        PROVE  ProcessTypeOK'
    <3>1. SharedTyped' BY <1>0, <1>4, <1>5, <2>0, <2>3 DEF Aim, SharedTyped
    <3> QED BY <1>0, <1>4, <1>5, <2>0, <2>3, <3>1, UnchangedTypes, TypePartsNext DEF Aim
  <2> QED BY <1>5, <2>1, <2>2, <2>3 DEF Aim
<1>6. CASE Term
  <2>0. ctl.pc \in Signalling /\ ctl.gen \in Gens BY <1>6, <1>g DEF Term, Signalling
  <2>1. ASSUME GiveUp, UNCHANGED osVars PROVE ProcessTypeOK'
    BY <1>0, <1>3, <1>6, <2>0, <2>1, UnchangedTypes, TypePartsNext DEF Term
  <2>2. ASSUME UNCHANGED mem,
               ctl' = [ctl EXCEPT !.pc = IF Alive(ctl.gen) THEN "termed" ELSE "gone"],
               Terminate(ctl.gen) \/ UNCHANGED osVars
        PROVE  ProcessTypeOK'
    <3>1. ControlTyped' BY <1>0, <2>2 DEF ControlTyped, ControlRow, ControlSteps, Signalling
    <3>2. OsTyped' BY <1>0, <2>0, <2>2, TerminateTypes, UnchangedTypes
    <3> QED BY <1>0, <1>6, <2>2, <3>1, <3>2, UnchangedTypes, TypePartsNext DEF Term
  <2> QED BY <1>6, <2>1, <2>2 DEF Term
<1>7. CASE Kill
  <2>0. ctl.pc \in Signalling /\ ctl.gen \in Gens BY <1>7, <1>g DEF Kill, Signalling
  <2>1. CASE ~StillExact
    BY <1>0, <1>3, <1>7, <2>0, <2>1, UnchangedTypes, TypePartsNext DEF Kill
  <2>2. CASE StillExact
    BY <1>0, <1>7, <2>0, <2>2, KillTypes, UnchangedTypes, TypePartsNext DEF Kill
  <2> QED BY <2>1, <2>2
<1>8. CASE Uncertain
  BY <1>0, <1>3, <1>8, SpentTypes, UnchangedTypes, TypePartsNext DEF Uncertain, Signalling
<1>9. CASE FinalizeStop
  <2>0. ctl.pc \in Signalling BY <1>9 DEF FinalizeStop, Signalling
  <2>1. ASSUME GiveUp, UNCHANGED session PROVE ProcessTypeOK'
    <3>1. SharedTyped' BY <1>0, <1>9, <2>1, UnchangedTypes DEF FinalizeStop
    <3> QED BY <1>0, <1>3, <1>9, <2>0, <2>1, <3>1, UnchangedTypes, TypePartsNext DEF FinalizeStop
  <2>2. ASSUME FinalizeOwned(ctl.by, TRUE), ctl' = [ctl EXCEPT !.pc = "stopped"]
        PROVE  ProcessTypeOK'
    <3>1. SharedTyped' BY <1>0, <1>4, <1>9, <2>0, <2>2 DEF FinalizeStop, SharedTyped
    <3> QED BY <1>0, <1>4, <1>9, <2>0, <2>2, <3>1, UnchangedTypes, TypePartsNext DEF FinalizeStop
  <2> QED BY <1>9, <2>1, <2>2 DEF FinalizeStop
<1>10. CASE ConfirmReceipt
  <2>1. ControlTyped' BY <1>0, <1>10 DEF ConfirmReceipt, ControlTyped, ControlRow, ControlSteps
  <2>2. SharedTyped' BY <1>0, <1>10 DEF ConfirmReceipt, SharedTyped, ReceiptRow
  <2> QED BY <1>0, <1>10, <2>1, <2>2, UnchangedTypes, TypePartsNext DEF ConfirmReceipt
<1>11. CASE Complete
  <2>1. ctl.gen \in Gens BY <1>11, <1>g DEF Complete
  <2>2. LeaseTyped' BY <1>0, <1>11, <2>1, LeaseTypes DEF Complete
  <2>3. ControlTyped'
    BY <1>11, LaunchesAssumption DEF Complete, NoControl, ControlTyped, ControlRow, ControlSteps
  <2> QED BY <1>0, <1>11, <2>2, <2>3, UnchangedTypes, TypePartsNext DEF Complete
<1> QED BY <1>1, <1>2, <1>5, <1>6, <1>7, <1>8, <1>9, <1>10, <1>11 DEF ControlStep

\* So do a crash, a stall and a reconciliation.
LEMMA OtherTypes ==
    ASSUME ProcessTypeOK, NEW p \in Procs,
           ProcessCrash(p) \/ Stall(p) \/ Reobserve(p) \/ \E g \in Gens : ReconcileStep(p, g)
    PROVE  ProcessTypeOK'
<1>0. /\ OsTyped /\ SharedTyped /\ MemTyped /\ LeaseTyped /\ ThreadTyped /\ ControlTyped
      /\ SpentTyped
  BY TypeParts
<1>1. ASSUME lease' = [h \in Gens |-> [lease[h] EXCEPT !.stale = @ \/ lease[h].by = p]]
      PROVE  LeaseTyped'
  <2> SUFFICES ASSUME NEW h \in Gens
               PROVE  [lease[h] EXCEPT !.stale = @ \/ lease[h].by = p] \in LeaseRow
    BY <1>1 DEF LeaseTyped
  <2> PICK b : b = (lease[h].stale \/ lease[h].by = p) OBVIOUS
  <2>1. b \in BOOLEAN BY <1>0 DEF LeaseTyped, LeaseRow
  <2>2. [lease[h] EXCEPT !.stale = b] \in LeaseRow BY <1>0, <2>1 DEF LeaseTyped, LeaseRow
  <2> QED BY <2>2
<1>2. CASE ProcessCrash(p)
  <2>1. MemTyped'
    <3>1. NoMem \in MemRow
      BY LaunchesAssumption DEF NoMem, NoSlot, MemRow, SlotRow, ReasonRow
    <3> QED BY <1>0, <1>2, <3>1 DEF ProcessCrash, MemTyped
  <2>2. ThreadTyped'
    <3> SUFFICES ASSUME NEW h \in Gens PROVE thread'[h] \in ThreadRow
      BY <1>2 DEF ProcessCrash, ThreadTyped
    <3>1. thread[h] \in ThreadRow BY <1>0 DEF ThreadTyped
    <3>2. CASE thread[h].by # p \/ Idle(h) BY <1>2, <3>1, <3>2 DEF ProcessCrash
    <3>3. CASE ~(thread[h].by # p \/ Idle(h))
      <4> PICK s : s = IF thread[h].pc = "begun" THEN "unstarted" ELSE "lost" OBVIOUS
      <4>1. s \in ThreadSteps BY DEF ThreadSteps
      <4>2. thread'[h] = [thread[h] EXCEPT !.pc = s] BY <1>2, <3>3 DEF ProcessCrash
      <4> QED BY <3>1, <4>1, <4>2 DEF ThreadRow
    <3> QED BY <3>2, <3>3
  <2>3. ControlTyped'
    <3>1. ctl.op \in Ops \cup {"none"} /\ ctl.gen \in 0 .. MaxGen
      BY <1>0 DEF ControlTyped, ControlRow
    <3> QED BY <1>0, <1>2, <3>1, ClaimedTypes DEF ProcessCrash, ControlTyped
  <2>4. LeaseTyped' BY <1>1, <1>2 DEF ProcessCrash
  <2> QED BY <1>0, <1>2, <2>1, <2>2, <2>3, <2>4, SpentTypes, UnchangedTypes, TypePartsNext
          DEF ProcessCrash
<1>3. CASE Stall(p)
  <2>1. LeaseTyped' BY <1>1, <1>3 DEF Stall
  <2> QED BY <1>0, <1>3, <2>1, SpentTypes, UnchangedTypes, TypePartsNext DEF Stall
<1>4. CASE Reobserve(p)
  <2>1. OsTyped'
    <3>1. CASE UNCHANGED files BY <1>0, <1>4, <3>1 DEF Reobserve, OsTyped
    <3>2. CASE session # 0 /\ files' = Permitted(RunOf[session])
      <4>1. session \in Gens BY <1>0, <3>2 DEF SharedTyped, Gens
      <4> QED BY <1>0, <1>4, <3>2, <4>1, RunOfRoot, PermitTypes DEF Reobserve
    <3> QED BY <1>4, <3>1, <3>2 DEF Reobserve
  <2>2. MemTyped'
    <3> PICK slot : /\ mem' = [mem EXCEPT ![p].slot = slot]
                    /\ \/ slot = mem[p].slot
                       \/ slot = [mem[p].slot EXCEPT !.lane = TRUE, !.listed = "name"]
                       \/ \E l \in {"no", mem[p].slot.listed} :
                            slot = [mem[p].slot EXCEPT !.lane = FALSE, !.listed = l]
      BY <1>4 DEF Reobserve
    <3>1. slot \in SlotRow BY <1>0 DEF MemTyped, MemRow, SlotRow
    <3> QED BY <1>0, <3>1, SlotTypes
  <2> QED BY <1>0, <1>4, <2>1, <2>2, UnchangedTypes, TypePartsNext DEF Reobserve
<1>5. ASSUME NEW g \in Gens, ReconcileStep(p, g) PROVE ProcessTypeOK'
  <2>1. CASE RequeueUninvoked(g)
    BY <1>0, <2>1, LeaseTypes, UnchangedTypes, TypePartsNext DEF RequeueUninvoked, ReleaseLease
  <2>2. CASE Adopt(g)
    <3>1. LeaseTyped' BY <1>0, <2>2 DEF Adopt, LeaseTyped, LeaseRow
    <3> QED BY <1>0, <2>2, <3>1, UnchangedTypes, TypePartsNext DEF Adopt
  <2>3. CASE MarkUnconfirmed(g)
    BY <1>0, <2>3, LeaseTypes, UnchangedTypes, TypePartsNext DEF MarkUnconfirmed
  <2>4. CASE CleanUp(p, g)
    <3>1. OsTyped' BY <1>0, <2>4, StopTypes DEF CleanUp
    <3>2. SharedTyped' BY <1>0, <2>4, LaunchesAssumption DEF CleanUp, SharedTyped
    <3>3. MemTyped'
      <4> PICK s : s = ReleasedSlot(mem[p].slot, g) OBVIOUS
      <4>1. s \in SlotRow BY <1>0, ReleasedSlotTypes
      <4> QED BY <1>0, <2>4, <4>1, SlotTypes, UnchangedTypes DEF CleanUp
    <3>4. LeaseTyped' BY <1>0, <2>4, LeaseTypes DEF CleanUp, ReleaseLease
    <3> QED BY <1>0, <2>4, <3>1, <3>2, <3>3, <3>4, UnchangedTypes, TypePartsNext DEF CleanUp
  <2> QED BY <1>5, <2>1, <2>2, <2>3, <2>4
          DEF ReconcileStep, CleanReserved, CleanUnconfirmed, RetireDead
<1> QED BY <1>2, <1>3, <1>4, <1>5
-----------------------------------------------------------------------------
(* The invariant, one operation at a time.                                     *)

\* A signal takes supervisors out, and a harness with them unless it ignores SIGTERM.
LEMMA SignalledHarness ==
    ASSUME ProcessTypeOK, NEW g \in Gens, \A h \in Gens : HarnessOf(h),
           \/ Terminate(g)
           \/ KillSupervisor(g) /\ g \in Stubborn
           \/ StopAndWait(g)
    PROVE  \A h \in Gens : /\ HarnessOf(h)'
                           /\ Alive(h)' => Alive(h)
                           /\ sup[h] = "none" /\ Alive(g) => sup'[h] = "none"
<1> SUFFICES ASSUME NEW h \in Gens
             PROVE  /\ HarnessOf(h)'
                    /\ Alive(h)' => Alive(h)
                    /\ sup[h] = "none" /\ Alive(g) => sup'[h] = "none"
  OBVIOUS
<1>1. CASE h # g
  BY <1>1 DEF ProcessTypeOK, Terminate, KillSupervisor, StopAndWait, HarnessOf, Alive
<1>2. CASE h = g
  <2>1. CASE Terminate(g)
    BY <1>2, <2>1 DEF ProcessTypeOK, Terminate, HarnessOf, Alive, Supervised
  <2>2. CASE KillSupervisor(g) /\ g \in Stubborn
    BY <1>2, <2>2 DEF ProcessTypeOK, KillSupervisor, HarnessOf, Alive, Supervised
  <2>3. CASE StopAndWait(g)
    BY <1>2, <2>3 DEF ProcessTypeOK, StopAndWait, HarnessOf, Alive, Supervised
  <2> QED BY <2>1, <2>2, <2>3
<1> QED BY <1>1, <1>2

\* A supervisor that nobody stops: from its start to its exit marker.
LEMMA SupervisorInv ==
    ASSUME ProcessInv, NEW g \in Gens, SupervisorStep(g) PROVE ProcessInv'
<1>1. ProcessTypeOK' BY SupervisorTypes DEF ProcessInv
<1>2. UNCHANGED <<session, receipt, mem, lease, thread, ctl>>
  BY DEF SupervisorStep, SupervisorReady, SupervisorAuthors, HandshakeTimesOut, HarnessEnds,
         SupervisorStops, SupervisorEnds
<1>3. \A h \in Gens : HarnessOf(h) BY DEF ProcessInv, GenerationInv
<1>4. ASSUME NEW h \in Gens
      PROVE  /\ HarnessOf(h)'
             /\ Alive(h)' => Alive(h)
             /\ sup[h] = "none" => sup'[h] = "none"
  <2>1. CASE SupervisorReady(g)
    BY <1>3, <2>1 DEF ProcessInv, ProcessTypeOK, SupervisorReady, HarnessOf, Alive, Supervised
  <2>2. CASE SupervisorAuthors(g)
    BY <1>3, <2>2 DEF ProcessInv, ProcessTypeOK, SupervisorAuthors, HarnessOf, Alive, Supervised
  <2>3. CASE HandshakeTimesOut(g)
    BY <1>3, <2>3 DEF ProcessInv, ProcessTypeOK, HandshakeTimesOut, SupervisorEnds, HarnessOf,
       Alive, Supervised
  <2>4. CASE HarnessEnds(g)
    BY <1>3, <2>4 DEF ProcessInv, ProcessTypeOK, HarnessEnds, SupervisorEnds, HarnessOf,
       Alive, Supervised
  <2>5. CASE SupervisorStops(g)
    BY <1>3, <2>5 DEF ProcessInv, ProcessTypeOK, SupervisorStops, SupervisorEnds, HarnessOf,
       Alive, Supervised
  <2> QED BY <2>1, <2>2, <2>3, <2>4, <2>5 DEF SupervisorStep
<1> QED BY <1>1, <1>2, <1>4, SupervisorsOnly

\* The claim of a run: the lease before it is released, and its process has no other thread.
LEMMA BeginInv ==
    ASSUME ProcessInv, NEW p \in Procs, NEW g \in Gens, Begin(p, g) PROVE ProcessInv'
<1>0. OneBusy BY BusyAlone DEF ProcessInv
<1>1. ProcessTypeOK'
  <2>1. ThreadStep(g) BY DEF ThreadStep
  <2> QED BY <2>1, ThreadTypes DEF ProcessInv, GenerationInv
<1>2. lease[g].st = "none" /\ thread[g].pc = "none"
  BY DEF ProcessInv, GenerationInv, PlaceOf, Begin, At
<1>3. \A h \in Gens : /\ lease'[h].st = IF h = g THEN "reserved" ELSE lease[h].st
                      /\ thread'[h].pc = IF h = g THEN "begun" ELSE thread[h].pc
                      /\ thread'[h].by = IF h = g THEN p ELSE thread[h].by
  BY DEF ProcessInv, ProcessTypeOK, Begin
<1>4. OneAfterTheOther'
  <2> SUFFICES ASSUME NEW a \in Gens, NEW b \in Gens, b < a, lease'[a].st # "none"
               PROVE  lease'[b].st = "released"
    BY DEF OneAfterTheOther
  <2>0. a \in Nat /\ b \in Nat BY LaunchesAssumption DEF Gens
  <2>1. CASE a = g
    <3>1. lease[b].st = "released" BY <2>1 DEF Begin
    <3>2. b # g BY <2>0, <2>1
    <3> QED BY <1>3, <3>1, <3>2
  <2>2. CASE a # g
    <3>1. lease[b].st = "released" BY <1>3, <2>2 DEF ProcessInv, OneAfterTheOther
    <3> QED BY <1>2, <1>3, <3>1
  <2> QED BY <2>1, <2>2
<1>5. OneThreadEach'
  <2>1. \A h \in Gens : thread[h].by = p => Idle(h) BY DEF Begin
  <2>2. \A h \in Gens : h # g => (Idle(h)' <=> Idle(h)) BY <1>3 DEF Idle
  <2> SUFFICES ASSUME NEW a \in Gens, NEW b \in Gens, a # b, thread'[a].by = thread'[b].by
               PROVE  Idle(a)' \/ Idle(b)'
    BY DEF OneThreadEach
  <2>3. CASE a = g BY <1>3, <2>1, <2>2, <2>3
  <2>4. CASE b = g BY <1>3, <2>1, <2>2, <2>4
  <2>5. CASE a # g /\ b # g BY <1>3, <2>2, <2>5 DEF ProcessInv, OneThreadEach
  <2> QED BY <2>3, <2>4, <2>5
<1>6. ASSUME NEW h \in Gens PROVE PlaceOf(h)' /\ LaunchKept(h)' /\ HarnessOf(h)'
  <2>1. CASE h = g
    <3>1. sup[g] = "none" BY <1>2 DEF ProcessInv, GenerationInv, PlaceOf
    <3>2. PlaceOf(g)'
      <4>1. /\ sup'[g] = "none" /\ lease'[g].st = "reserved"
            /\ thread'[g].pc = "begun" /\ thread'[g].by = p
        BY <1>3, <3>1 DEF Begin, osVars
      <4> QED BY <4>1 DEF PlaceOf, Launching
    <3>3. LaunchKept(g)' BY <1>3 DEF LaunchKept, Launching
    <3>4. HarnessOf(g)' BY DEF ProcessInv, GenerationInv, HarnessOf, Begin, osVars, Alive
    <3> QED BY <2>1, <3>2, <3>3, <3>4
  <2>2. CASE h # g
    <3>1. /\ UNCHANGED <<sup, child, session, mem>>
          /\ lease'[h].st = lease[h].st /\ thread'[h].pc = thread[h].pc
          /\ thread'[h].by = thread[h].by
      BY <1>3, <2>2 DEF Begin, osVars
    <3>2. PlaceOf(h)' BY <3>1 DEF ProcessInv, GenerationInv, PlaceOf, Alive
    <3>3. LaunchKept(h)' BY <3>1 DEF ProcessInv, GenerationInv, LaunchKept
    <3>4. HarnessOf(h)' BY <3>1 DEF ProcessInv, GenerationInv, HarnessOf, Alive
    <3> QED BY <3>2, <3>3, <3>4
  <2> QED BY <2>1, <2>2
<1>7. ControlKnows' BY <1>2, <1>3 DEF ProcessInv, ControlKnows, Begin, osVars, Alive
<1>8. ReceiptKnows' BY <1>2, <1>3 DEF ProcessInv, ReceiptKnows, Begin
<1>9. StopsExact'
  <2>1. UNCHANGED <<sup, child, session, mem, receipt>> BY DEF Begin, osVars
  <2>2. ReleasedIsDead'
    BY <1>3, <2>1 DEF ProcessInv, StopsExact, ReleasedIsDead, Alive
  <2>3. LiveIsReachable'
    BY <1>2, <1>3, <2>1 DEF ProcessInv, StopsExact, LiveIsReachable, Alive
  <2>4. ReceiptIsTrue' BY <2>1 DEF ProcessInv, StopsExact, ReceiptIsTrue, Alive
  <2> QED BY <2>2, <2>3, <2>4 DEF StopsExact
<1> QED BY <1>1, <1>4, <1>5, <1>6, <1>7, <1>8, <1>9 DEF ProcessInv, GenerationInv

\* The supervisor starts while the lease is reserved: no control and no receipt knows of it.
LEMMA SpawnInv ==
    ASSUME ProcessInv, NEW g \in Gens, Spawn(g) PROVE ProcessInv'
<1>0. OneBusy BY BusyAlone DEF ProcessInv
<1>1. ProcessTypeOK'
  <2>1. ThreadStep(g) BY DEF ThreadStep
  <2> QED BY <2>1, ThreadTypes DEF ProcessInv, GenerationInv
<1>2. lease[g].st = "reserved" /\ thread[g].by \in Procs /\ sup[g] = "none" /\ child[g] = "none"
  BY DEF ProcessInv, GenerationInv, PlaceOf, HarnessOf, Spawn, At, Launching
<1>3. Moved(g, "spawned") BY GotoMoves DEF ProcessInv, Spawn
<1>4. /\ \A h \in Gens : sup'[h] = IF h = g THEN "starting" ELSE sup[h]
      /\ \A p \in Procs : mem'[p].proc = IF p = thread[g].by THEN g ELSE mem[p].proc
  BY DEF ProcessInv, ProcessTypeOK, Spawn
<1>5. \A h \in Gens : h # g => lease[h].st \in {"none", "released"}
  BY <1>0, <1>2 DEF OneBusy, Busy
<1>6. OneAfterTheOther' BY DEF ProcessInv, OneAfterTheOther, Spawn
<1>7. OneThreadEach' BY <1>3, ThreadsKept DEF ProcessInv, Moved, Idle, Spawn, At
<1>8. ASSUME NEW h \in Gens PROVE PlaceOf(h)' /\ LaunchKept(h)' /\ HarnessOf(h)'
  <2>1. CASE h = g
    <3>1. PlaceOf(g)' BY <1>2, <1>3, <1>4 DEF PlaceOf, Moved, Spawn, Launching
    <3>2. LaunchKept(g)' BY <1>2, <1>3, <1>4 DEF LaunchKept, Moved, Launching
    <3>3. HarnessOf(g)' BY <1>2, <1>4 DEF HarnessOf, Spawn
    <3> QED BY <2>1, <3>1, <3>2, <3>3
  <2>2. CASE h # g
    <3>1. thread[h].pc \notin Launching
      BY <1>5, <2>2 DEF ProcessInv, GenerationInv, PlaceOf
    <3>2. PlaceOf(h)'
      BY <1>3, <1>4, <2>2 DEF ProcessInv, GenerationInv, PlaceOf, Moved, Spawn, Alive
    <3>3. LaunchKept(h)' BY <1>3, <2>2, <3>1 DEF LaunchKept, Moved, Launching
    <3>4. HarnessOf(h)'
      BY <1>4, <2>2 DEF ProcessInv, GenerationInv, HarnessOf, Spawn, Alive
    <3> QED BY <3>2, <3>3, <3>4
  <2> QED BY <2>1, <2>2
<1>9. ControlKnows' BY <1>2, <1>4 DEF ProcessInv, ControlKnows, Spawn, Alive
<1>10. ReceiptKnows' BY DEF ProcessInv, ReceiptKnows, Spawn
<1>11. ReleasedIsDead' BY <1>2, <1>4 DEF ProcessInv, StopsExact, ReleasedIsDead, Spawn, Alive
<1>12. LiveIsReachable' BY <1>2, <1>5 DEF LiveIsReachable, Spawn
<1>13. ReceiptIsTrue'
  BY <1>2, <1>4 DEF ProcessInv, StopsExact, ReceiptIsTrue, ReceiptKnows, Spawn, Alive
<1> QED BY <1>1, <1>6, <1>7, <1>8, <1>9, <1>10, <1>11, <1>12, <1>13
        DEF ProcessInv, GenerationInv, StopsExact

\* When a thread only moves, the supervisors are as they were.
LEMMA SupervisorsSame ==
    ASSUME ProcessInv, UNCHANGED <<sup, child>>
    PROVE  \A h \in Gens : /\ HarnessOf(h)'
                           /\ Alive(h)' => Alive(h)
                           /\ sup[h] = "none" => sup'[h] = "none"
BY DEF ProcessInv, GenerationInv, HarnessOf, Alive

\* The types after a step of a run thread.
LEMMA ThreadTyping == ASSUME ProcessInv, NEW g \in Gens, ThreadStep(g) PROVE ProcessTypeOK'
BY ThreadTypes DEF ProcessInv, GenerationInv

\* A launch that is signalled loses its supervisor, its lease and its session for nobody else.
LEMMA TerminatedHarness ==
    ASSUME ProcessInv, NEW g \in Gens, sup[g] # "none",
           Terminate(g) \/ (KillSupervisor(g) /\ g \in Stubborn)
    PROVE  \A h \in Gens : /\ HarnessOf(h)'
                           /\ Alive(h)' => Alive(h)
                           /\ sup[h] = "none" => sup'[h] = "none"
<1>1. \A h \in Gens : HarnessOf(h)' /\ (Alive(h)' => Alive(h))
  BY SignalledHarness DEF ProcessInv, GenerationInv
<1>2. ASSUME NEW h \in Gens, sup[h] = "none" PROVE sup'[h] = "none"
  BY <1>2 DEF ProcessInv, ProcessTypeOK, Terminate, KillSupervisor
<1> QED BY <1>1, <1>2

\* The steps of a launch that only look: the reservation, the ready file, the identity.
LEMMA LaunchInv ==
    ASSUME ProcessInv, NEW g \in Gens, Invoke(g) \/ SeeReady(g) \/ Ended(g) PROVE ProcessInv'
<1>1. ProcessTypeOK' BY ThreadTyping DEF ThreadStep
<1>2. PICK step : /\ Goto(g, step)
                  /\ step = "invoked" \/ step = "done" \/ step = "ready" \/ step = "ending"
  BY DEF Invoke, SeeReady, Ended
<1>3. Moved(g, step) BY <1>2, GotoMoves DEF ProcessInv
<1>4. UNCHANGED <<sup, child, session, receipt, mem, lease, ctl>>
  BY DEF Invoke, SeeReady, Ended, osVars
<1>5. ~Idle(g) BY DEF Invoke, SeeReady, Ended, At, Idle
<1>6. LeasesKept /\ HandlesKept BY <1>4 DEF LeasesKept, HandlesKept
<1>7. thread'[g].pc = step /\ thread'[g].by = thread[g].by BY <1>3 DEF Moved
<1>8. PlaceOf(g) /\ LaunchKept(g) BY DEF ProcessInv, GenerationInv
<1>9. PlaceOf(g)'
  <2>1. CASE Invoke(g)
    <3>1. \/ step = "invoked" /\ lease[g].st = "reserved"
          \/ step = "done"
      BY <1>7, <2>1 DEF Invoke, Goto, ProcessInv, ProcessTypeOK
    <3> QED BY <1>4, <1>7, <1>8, <2>1, <3>1 DEF PlaceOf, Invoke, At, Alive, Supervised, Launching
  <2>2. CASE SeeReady(g)
    <3>1. step = "ready" BY <1>7, <2>2 DEF SeeReady, Goto, ProcessInv, ProcessTypeOK
    <3> QED BY <1>4, <1>7, <1>8, <2>2, <3>1 DEF PlaceOf, SeeReady, At, Alive, Launching
  <2>3. CASE Ended(g)
    <3>1. step = "ending" BY <1>7, <2>3 DEF Ended, Goto, ProcessInv, ProcessTypeOK
    <3> QED BY <1>4, <1>7, <1>8, <2>3, <3>1 DEF PlaceOf, Ended, At, Alive, Launching
  <2> QED BY <2>1, <2>2, <2>3
<1>10. LaunchKept(g)'
  <2>1. CASE step = "ready"
    <3>1. At(g, "spawned")
      BY <1>7, <2>1 DEF Invoke, SeeReady, Ended, Goto, ProcessInv, ProcessTypeOK
    <3> QED BY <1>4, <1>7, <1>8, <2>1, <3>1 DEF LaunchKept, Launching, At
  <2>2. CASE step # "ready" BY <1>2, <1>7, <2>2 DEF LaunchKept, Launching
  <2> QED BY <2>1, <2>2
<1>11. step \notin {"confirmed", "running"} BY <1>2
<1> QED BY <1>1, <1>3, <1>4, <1>5, <1>6, <1>9, <1>10, <1>11, SupervisorsSame, ThreadOnly

\* Not ready in time: the supervisor had no handlers yet, so SIGTERM ends it (abort_unready).
LEMMA NotReadyInv == ASSUME ProcessInv, NEW g \in Gens, NotReady(g) PROVE ProcessInv'
<1>1. ProcessTypeOK' BY ThreadTyping DEF ThreadStep
<1>2. Moved(g, "ending") BY DEF ProcessInv, ProcessTypeOK, NotReady, Moved
<1>3. \A h \in Gens : /\ HarnessOf(h)'
                      /\ Alive(h)' => Alive(h)
                      /\ sup[h] = "none" => sup'[h] = "none"
  BY TerminatedHarness DEF NotReady
<1>4. UNCHANGED <<session, receipt, ctl>> /\ LeasesKept /\ HandlesKept
  BY DEF NotReady, LeasesKept, HandlesKept
<1>5. sup'[g] = "dead" BY DEF ProcessInv, ProcessTypeOK, NotReady, Terminate
<1>6. PlaceOf(g)'
  <2>1. PlaceOf(g) /\ thread[g].pc = "spawned" BY DEF ProcessInv, GenerationInv, NotReady, At
  <2>2. thread'[g].pc = "ending" /\ thread'[g].by = thread[g].by /\ lease'[g].st = lease[g].st
    BY <1>2, <1>4 DEF Moved, LeasesKept
  <2>3. ~Alive(g)' BY <1>5 DEF Alive, Supervised
  <2> QED BY <2>1, <2>2, <2>3 DEF PlaceOf, Launching
<1>7. LaunchKept(g)' BY <1>2 DEF LaunchKept, Moved, Launching
<1>8. ~Idle(g) BY DEF NotReady, At, Idle
<1> QED BY <1>1, <1>2, <1>3, <1>4, <1>6, <1>7, <1>8, ThreadOnly

\* The start is refused: SIGTERM, and SIGKILL for a harness that ignores it.
LEMMA RejectInv ==
    ASSUME ProcessInv, NEW g \in Gens, Reject(g) \/ RejectKills(g) PROVE ProcessInv'
<1>1. ProcessTypeOK' BY ThreadTyping DEF ThreadStep
<1>2. PlaceOf(g) /\ LaunchKept(g) BY DEF ProcessInv, GenerationInv
<1>3. Moved(g, "rejecting")
  <2>1. CASE Reject(g) BY <2>1, GotoMoves DEF ProcessInv, Reject
  <2>2. CASE RejectKills(g) BY <2>2 DEF RejectKills, Moved, At
  <2> QED BY <2>1, <2>2
<1>4. UNCHANGED <<session, receipt, ctl, mem, lease>> BY DEF Reject, RejectKills
<1>5. LeasesKept /\ HandlesKept BY <1>4 DEF LeasesKept, HandlesKept
<1>6. \A h \in Gens : /\ HarnessOf(h)'
                      /\ Alive(h)' => Alive(h)
                      /\ sup[h] = "none" => sup'[h] = "none"
  <2>1. CASE RejectKills(g) BY <2>1, TerminatedHarness DEF RejectKills
  <2>2. CASE Reject(g)
    <3>1. CASE sup[g] # "none" BY <2>2, <3>1, TerminatedHarness DEF Reject
    <3>2. CASE sup[g] = "none"
      <4>1. UNCHANGED <<sup, child>>
        BY <2>2, <3>2 DEF ProcessInv, ProcessTypeOK, Reject, Terminate
      <4> QED BY <4>1, SupervisorsSame
    <3> QED BY <3>1, <3>2
  <2> QED BY <2>1, <2>2
<1>7. thread[g].pc \in {"identified", "rejecting"} BY DEF Reject, RejectKills, At
<1>8. PlaceOf(g)' BY <1>2, <1>3, <1>4, <1>7 DEF PlaceOf, Moved, Launching
<1>9. LaunchKept(g)' BY <1>2, <1>3, <1>4, <1>7 DEF LaunchKept, Moved, Launching
<1>10. ~Idle(g) BY <1>7 DEF Idle
<1> QED BY <1>1, <1>3, <1>4, <1>5, <1>6, <1>8, <1>9, <1>10, ThreadOnly

\* The permit: a session that is gone says that a control stopped the generation meanwhile.
LEMMA PermitInv == ASSUME ProcessInv, NEW g \in Gens, Permit(g) PROVE ProcessInv'
<1>1. ProcessTypeOK' BY ThreadTyping DEF ThreadStep
<1>2. PlaceOf(g) BY DEF ProcessInv, GenerationInv
<1>3. UNCHANGED <<sup, child, session, receipt, mem, lease, ctl>> BY DEF Permit
<1>4. LeasesKept /\ HandlesKept BY <1>3 DEF LeasesKept, HandlesKept
<1>5. ~Idle(g) /\ thread[g].pc = "confirmed" BY DEF Permit, At, Idle
<1>6. CASE session = 0
  <2>1. Moved(g, "ending") BY <1>6 DEF ProcessInv, ProcessTypeOK, Permit, Moved
  <2>2. ~Alive(g)
    BY <1>2, <1>5, <1>6, GensPositive
       DEF ProcessInv, StopsExact, LiveIsReachable, ReleasedIsDead, PlaceOf
  <2>3. PlaceOf(g)' BY <1>2, <1>3, <1>5, <2>1, <2>2 DEF PlaceOf, Moved, Alive, Launching
  <2>4. LaunchKept(g)' BY <2>1 DEF LaunchKept, Moved, Launching
  <2> QED BY <1>1, <1>3, <1>4, <1>5, <2>1, <2>3, <2>4, SupervisorsSame, ThreadOnly
<1>7. CASE session # 0
  <2>1. Moved(g, "running") BY <1>7 DEF ProcessInv, ProcessTypeOK, Permit, Moved
  <2>3. PlaceOf(g)' BY <1>2, <1>3, <1>5, <2>1 DEF PlaceOf, Moved, Alive, Launching
  <2>4. LaunchKept(g)' BY <2>1 DEF LaunchKept, Moved, Launching
  <2> QED BY <1>1, <1>3, <1>4, <1>5, <2>1, <2>3, <2>4, SupervisorsSame, ThreadOnly
<1> QED BY <1>6, <1>7

\* The report reads the stop reason and the exit marker.
LEMMA ReportInv == ASSUME ProcessInv, NEW g \in Gens, Report(g) PROVE ProcessInv'
<1>1. ProcessTypeOK' BY ThreadTyping DEF ThreadStep
<1>2. PlaceOf(g) BY DEF ProcessInv, GenerationInv
<1>3. Moved(g, "settling") BY DEF ProcessInv, ProcessTypeOK, Report, Moved
<1>4. UNCHANGED <<sup, child, session, receipt, lease, ctl>> BY DEF Report, osVars
<1>5. LeasesKept BY <1>4 DEF LeasesKept
<1>6. HandlesKept BY DEF ProcessInv, ProcessTypeOK, Report, HandlesKept
<1>7. ~Idle(g) /\ thread[g].pc = "reporting" BY DEF Report, At, Idle
<1>8. PlaceOf(g)' BY <1>2, <1>3, <1>4, <1>7 DEF PlaceOf, Moved, Alive, Launching
<1>9. LaunchKept(g)' BY <1>3 DEF LaunchKept, Moved, Launching
<1> QED BY <1>1, <1>3, <1>4, <1>5, <1>6, <1>7, <1>8, <1>9, SupervisorsSame, ThreadOnly

\* The supervisor is dead after all: its session, its handle and its slot go.
LEMMA RejectCleansInv == ASSUME ProcessInv, NEW g \in Gens, RejectCleans(g) PROVE ProcessInv'
<1>0. OneBusy BY BusyAlone DEF ProcessInv
<1>1. ProcessTypeOK' BY ThreadTyping DEF ThreadStep
<1>2. PlaceOf(g) BY DEF ProcessInv, GenerationInv
<1>3. Moved(g, "settling") BY DEF ProcessInv, ProcessTypeOK, RejectCleans, Moved
<1>4. UNCHANGED <<sup, child, receipt, lease, ctl>> BY DEF RejectCleans, osVars
<1>5. lease[g].st = "reserved" /\ ~Alive(g)
  BY <1>2 DEF RejectCleans, At, PlaceOf, Launching
<1>6. \A h \in Gens : h # g => lease[h].st \in {"none", "released"}
  BY <1>0, <1>5 DEF OneBusy, Busy
<1>7. OneAfterTheOther' BY <1>4 DEF ProcessInv, OneAfterTheOther
<1>8. OneThreadEach' BY <1>3, ThreadsKept DEF ProcessInv, Moved, Idle, RejectCleans, At
<1>9. ASSUME NEW h \in Gens PROVE PlaceOf(h)' /\ LaunchKept(h)' /\ HarnessOf(h)'
  <2>1. HarnessOf(h)' BY <1>4 DEF ProcessInv, GenerationInv, HarnessOf, Alive
  <2>2. CASE h = g
    <3>1. /\ thread'[g].pc = "settling" /\ thread'[g].by = thread[g].by
          /\ thread[g].pc = "rejecting"
      BY <1>3 DEF Moved, RejectCleans, At
    <3>3. PlaceOf(g)' BY <1>2, <1>4, <1>5, <3>1 DEF PlaceOf, Alive, Launching
    <3>2. LaunchKept(g)' BY <1>3 DEF LaunchKept, Moved, Launching
    <3> QED BY <2>1, <2>2, <3>3, <3>2
  <2>3. CASE h # g
    <3>1. PlaceOf(h) /\ thread'[h].pc = thread[h].pc /\ thread'[h].by = thread[h].by
      BY <1>3, <2>3 DEF ProcessInv, GenerationInv, Moved
    <3>2. PlaceOf(h)' BY <1>4, <3>1 DEF PlaceOf, Alive
    <3>3. LaunchKept(h)' BY <1>6, <2>3, <3>1 DEF LaunchKept, PlaceOf, Launching
    <3> QED BY <2>1, <3>2, <3>3
  <2> QED BY <2>2, <2>3
<1>10. ControlKnows' BY <1>4 DEF ProcessInv, ControlKnows, Alive
<1>11. ReceiptKnows' BY <1>4 DEF ProcessInv, ReceiptKnows
<1>12. ReleasedIsDead' /\ ReceiptIsTrue'
  BY <1>4 DEF ProcessInv, StopsExact, ReleasedIsDead, ReceiptIsTrue, Alive
<1>13. LiveIsReachable' BY <1>4, <1>5, <1>6 DEF LiveIsReachable
<1> QED BY <1>1, <1>7, <1>8, <1>9, <1>10, <1>11, <1>12, <1>13
        DEF ProcessInv, GenerationInv, StopsExact

\* The end of a run thread: whoever else lives by then has another session and another handle.
LEMMA FinishInv == ASSUME ProcessInv, NEW g \in Gens, Finish(g) PROVE ProcessInv'
<1>1. ProcessTypeOK' BY ThreadTyping DEF ThreadStep
<1>2. PlaceOf(g) BY DEF ProcessInv, GenerationInv
<1>3. PICK step : Moved(g, step) /\ (step = "reporting" \/ step = "settling")
  <2>1. CASE thread' = [thread EXCEPT ![g].pc = "settling", ![g].out = "error"]
    <3>1. Moved(g, "settling") BY <2>1 DEF ProcessInv, ProcessTypeOK, Moved
    <3> QED BY <3>1
  <2>2. CASE Goto(g, IF thread[g].out = "none" THEN "reporting" ELSE "settling")
    BY <2>2, GotoMoves DEF ProcessInv
  <2> QED BY <2>1, <2>2 DEF Finish
<1>4. UNCHANGED <<sup, child, receipt, lease, ctl>> BY DEF Finish, osVars
<1>5. thread[g].pc = "ending" /\ ~Alive(g) /\ thread[g].by \in Procs /\ ~Idle(g)
  BY <1>2 DEF Finish, At, PlaceOf, Idle
<1>6. \A h \in Gens : h # g /\ session = h => session' = h
  BY GensPositive DEF Finish, FinalizeOwned, CanFinalize, AllAbsent
<1>7. \A p \in Procs : p # thread[g].by => mem'[p].proc = mem[p].proc
  BY DEF ProcessInv, ProcessTypeOK, Finish, FinalizeOwned
<1>8. \A h \in Gens : h # g /\ ~Idle(h) => thread[h].by # thread[g].by
  BY <1>5 DEF ProcessInv, OneThreadEach
<1>9. OneAfterTheOther' BY <1>4 DEF ProcessInv, OneAfterTheOther
<1>10. OneThreadEach' BY <1>3, <1>5, ThreadsKept DEF ProcessInv, Moved, Idle
<1>11. ASSUME NEW h \in Gens PROVE PlaceOf(h)' /\ LaunchKept(h)' /\ HarnessOf(h)'
  <2>1. HarnessOf(h)' BY <1>4 DEF ProcessInv, GenerationInv, HarnessOf, Alive
  <2>2. CASE h = g
    <3>1. PlaceOf(g)' BY <1>2, <1>3, <1>4, <1>5 DEF PlaceOf, Moved, Alive, Launching
    <3>2. LaunchKept(g)' BY <1>3 DEF LaunchKept, Moved, Launching
    <3> QED BY <2>1, <2>2, <3>1, <3>2
  <2>3. CASE h # g
    <3>1. /\ PlaceOf(h) /\ LaunchKept(h)
          /\ thread'[h].pc = thread[h].pc /\ thread'[h].by = thread[h].by
      BY <1>3, <2>3 DEF ProcessInv, GenerationInv, Moved
    <3>2. PlaceOf(h)' BY <1>4, <3>1 DEF PlaceOf, Alive
    <3>3. LaunchKept(h)'
      <4>1. CASE thread[h].pc \in Launching
        <5>1. thread[h].by \in Procs /\ ~Idle(h)
          BY <3>1, <4>1 DEF PlaceOf, Launching, Idle
        <5>2. mem'[thread[h].by].proc = mem[thread[h].by].proc BY <1>7, <1>8, <2>3, <5>1
        <5> QED BY <1>6, <2>3, <3>1, <5>2 DEF LaunchKept
      <4>2. CASE thread[h].pc \notin Launching BY <3>1, <4>2 DEF LaunchKept, Launching
      <4> QED BY <4>1, <4>2
    <3> QED BY <2>1, <3>2, <3>3
  <2> QED BY <2>2, <2>3
<1>12. ControlKnows' BY <1>4 DEF ProcessInv, ControlKnows, Alive
<1>13. ReceiptKnows' BY <1>4 DEF ProcessInv, ReceiptKnows
<1>14. ReleasedIsDead' /\ ReceiptIsTrue'
  BY <1>4 DEF ProcessInv, StopsExact, ReleasedIsDead, ReceiptIsTrue, Alive
<1>15. LiveIsReachable'
  <2> SUFFICES ASSUME NEW h \in Gens, lease[h].st = "confirmed", Alive(h)
               PROVE  /\ session' = h
                      /\ thread'[h].pc \in {"confirmed", "running"} => mem'[thread'[h].by].proc = h
    BY <1>4 DEF LiveIsReachable, Alive
  <2>1. h # g BY <1>5
  <2>2. /\ session = h
        /\ thread[h].pc \in {"confirmed", "running"} => mem[thread[h].by].proc = h
    BY DEF ProcessInv, StopsExact, LiveIsReachable
  <2>3. thread'[h].pc = thread[h].pc /\ thread'[h].by = thread[h].by BY <1>3, <2>1 DEF Moved
  <2>4. ASSUME thread[h].pc \in {"confirmed", "running"} PROVE mem'[thread[h].by].proc = h
    <3>1. thread[h].by \in Procs /\ ~Idle(h)
      BY <2>4 DEF ProcessInv, GenerationInv, PlaceOf, Idle
    <3> QED BY <1>7, <1>8, <2>1, <2>2, <2>4, <3>1
  <2> QED BY <1>6, <2>1, <2>2, <2>3, <2>4
<1> QED BY <1>1, <1>9, <1>10, <1>11, <1>12, <1>13, <1>14, <1>15
        DEF ProcessInv, GenerationInv, StopsExact

\* The types after a step of a control.
LEMMA ControlTyping == ASSUME ProcessInv, ControlStep PROVE ProcessTypeOK'
BY ControlTypes DEF ProcessInv

\* So after a crash, a stall or a reconciliation.
LEMMA OtherTyping ==
    ASSUME ProcessInv, NEW p \in Procs,
           ProcessCrash(p) \/ Stall(p) \/ Reobserve(p) \/ \E g \in Gens : ReconcileStep(p, g)
    PROVE  ProcessTypeOK'
BY OtherTypes DEF ProcessInv

\* A lease gets another state and its thread goes on, or it stays.
LEMMA LeasedAlone ==
    ASSUME ProcessTypeOK, NEW g \in Gens, NEW st
    PROVE  /\ lease' = [lease EXCEPT ![g].st = st] => Leased(g, st)
           /\ \A i : lease' = [lease EXCEPT ![g].st = st, ![g].ident = i] => Leased(g, st)
           /\ UNCHANGED thread => Moved(g, thread[g].pc)
           /\ UNCHANGED lease => LeasesKept
BY DEF ProcessTypeOK, Leased, Moved, LeasesKept

\* The identity is copied; the state of the lease is not touched.
LEMMA IdentifyInv == ASSUME ProcessInv, NEW g \in Gens, Identify(g) PROVE ProcessInv'
<1>1. ProcessTypeOK' BY ThreadTyping DEF ThreadStep
<1>2. PlaceOf(g) /\ LaunchKept(g) BY DEF ProcessInv, GenerationInv
<1>3. Moved(g, "identified") BY GotoMoves DEF ProcessInv, Identify
<1>4. UNCHANGED <<sup, child, session, receipt, mem, ctl>> BY DEF Identify, osVars
<1>5. LeasesKept
  <2> PICK i : lease' = [lease EXCEPT ![g].ident = i] BY DEF Identify
  <2> QED BY DEF LeasesKept, ProcessInv, ProcessTypeOK
<1>6. HandlesKept BY <1>4 DEF HandlesKept
<1>7. ~Idle(g) /\ thread[g].pc = "published" BY DEF Identify, At, Idle
<1>8. /\ thread'[g].pc = "identified" /\ thread'[g].by = thread[g].by
      /\ lease'[g].st = lease[g].st
  BY <1>3, <1>5 DEF Moved, LeasesKept
<1>9. PlaceOf(g)' BY <1>2, <1>4, <1>7, <1>8 DEF PlaceOf, Alive, Launching
<1>10. LaunchKept(g)' BY <1>2, <1>4, <1>7, <1>8 DEF LaunchKept, Launching
<1> QED BY <1>1, <1>3, <1>4, <1>5, <1>6, <1>7, <1>9, <1>10, SupervisorsSame, ThreadOnly

\* The session file is written: nobody else's generation is confirmed or launching.
LEMMA PublishInv == ASSUME ProcessInv, NEW g \in Gens, Publish(g) PROVE ProcessInv'
<1>0. OneBusy BY BusyAlone DEF ProcessInv
<1>1. ProcessTypeOK' BY ThreadTyping DEF ThreadStep
<1>2. PlaceOf(g) /\ LaunchKept(g) BY DEF ProcessInv, GenerationInv
<1>3. Moved(g, "published") BY GotoMoves DEF ProcessInv, Publish
<1>4. UNCHANGED <<sup, child, receipt, mem, lease, ctl>> BY DEF Publish, osVars
<1>5. lease[g].st = "reserved" /\ ~Idle(g) /\ thread[g].pc = "ready"
  BY <1>2 DEF Publish, At, PlaceOf, Launching, Idle
<1>6. \A h \in Gens : h # g => lease[h].st \in {"none", "released"}
  BY <1>0, <1>5 DEF OneBusy, Busy
<1>7. thread'[g].pc = "published" /\ thread'[g].by = thread[g].by /\ session' = g
  BY <1>3 DEF Moved, Publish
<1>8. OneAfterTheOther' BY <1>4 DEF ProcessInv, OneAfterTheOther
<1>9. OneThreadEach' BY <1>3, <1>5, ThreadsKept DEF ProcessInv, Moved, Idle
<1>10. ASSUME NEW h \in Gens PROVE PlaceOf(h)' /\ LaunchKept(h)' /\ HarnessOf(h)'
  <2>1. HarnessOf(h)' BY <1>4 DEF ProcessInv, GenerationInv, HarnessOf, Alive
  <2>2. CASE h = g
    <3>1. PlaceOf(g)' BY <1>2, <1>4, <1>5, <1>7 DEF PlaceOf, Alive, Launching
    <3>2. LaunchKept(g)' BY <1>2, <1>4, <1>5, <1>7 DEF LaunchKept, Launching
    <3> QED BY <2>1, <2>2, <3>1, <3>2
  <2>3. CASE h # g
    <3>1. PlaceOf(h) /\ thread'[h].pc = thread[h].pc /\ thread'[h].by = thread[h].by
      BY <1>3, <2>3 DEF ProcessInv, GenerationInv, Moved
    <3>2. PlaceOf(h)' BY <1>4, <3>1 DEF PlaceOf, Alive
    <3>3. LaunchKept(h)' BY <1>6, <2>3, <3>1 DEF LaunchKept, PlaceOf, Launching
    <3> QED BY <2>1, <3>2, <3>3
  <2> QED BY <2>2, <2>3
<1>11. ControlKnows' BY <1>4 DEF ProcessInv, ControlKnows, Alive
<1>12. ReceiptKnows' BY <1>4 DEF ProcessInv, ReceiptKnows
<1>13. ReleasedIsDead' /\ ReceiptIsTrue'
  BY <1>4 DEF ProcessInv, StopsExact, ReleasedIsDead, ReceiptIsTrue, Alive
<1>14. LiveIsReachable' BY <1>4, <1>5, <1>6 DEF LiveIsReachable
<1> QED BY <1>1, <1>8, <1>9, <1>10, <1>11, <1>12, <1>13, <1>14
        DEF ProcessInv, GenerationInv, StopsExact

\* The start is confirmed while its session and its handle are in place.
LEMMA ConfirmInv == ASSUME ProcessInv, NEW g \in Gens, Confirm(g) PROVE ProcessInv'
<1>0. OneBusy BY BusyAlone DEF ProcessInv
<1>1. ProcessTypeOK' BY ThreadTyping DEF ThreadStep
<1>2. PlaceOf(g) /\ LaunchKept(g) BY DEF ProcessInv, GenerationInv
<1>3. Moved(g, "confirmed") BY GotoMoves DEF ProcessInv, Confirm
<1>4. UNCHANGED <<sup, child, session, receipt, mem, ctl>> BY DEF Confirm, osVars
<1>5. Leased(g, "confirmed") BY LeasedAlone DEF ProcessInv, Confirm
<1>6. lease[g].st = "reserved" /\ thread[g].pc = "identified" /\ ~Idle(g)
  BY DEF Confirm, At, Idle
<1>7. /\ thread'[g].pc = "confirmed" /\ thread'[g].by = thread[g].by
      /\ lease'[g].st = "confirmed"
  BY <1>3, <1>5 DEF Moved, Leased
<1>8. session = g /\ mem[thread[g].by].proc = g BY <1>2, <1>6 DEF LaunchKept, Launching
<1>9. PlaceOf(g)' BY <1>2, <1>4, <1>6, <1>7 DEF PlaceOf, Alive, Launching
<1>10. LaunchKept(g)' BY <1>7 DEF LaunchKept, Launching
<1>11. ControlKnows' BY <1>4, <1>5, <1>6 DEF ProcessInv, ControlKnows, Leased, Alive
<1>12. LiveIsReachable'
  <2>1. \A h \in Gens : lease'[h].st = "confirmed" => h = g
    BY <1>0, <1>5, <1>6 DEF Leased, OneBusy, Busy
  <2> QED BY <1>4, <1>7, <1>8, <2>1 DEF LiveIsReachable
<1> QED BY <1>1, <1>3, <1>4, <1>5, <1>6, <1>9, <1>10, <1>11, <1>12, LeaseOnly

\* The refused start that was not seen to end keeps its lease as a fence.
LEMMA RejectUnconfirmedInv ==
    ASSUME ProcessInv, NEW g \in Gens, RejectUnconfirmed(g) PROVE ProcessInv'
<1>1. ProcessTypeOK' BY ThreadTyping DEF ThreadStep
<1>2. PlaceOf(g) BY DEF ProcessInv, GenerationInv
<1>3. Moved(g, "done") BY GotoMoves DEF ProcessInv, RejectUnconfirmed
<1>4. UNCHANGED <<sup, child, session, receipt, mem, ctl>> BY DEF RejectUnconfirmed, osVars
<1>5. Leased(g, "unconfirmed") BY LeasedAlone DEF ProcessInv, RejectUnconfirmed
<1>6. lease[g].st = "reserved" /\ thread[g].pc = "rejecting" /\ ~Idle(g)
  BY <1>2 DEF RejectUnconfirmed, At, Idle, PlaceOf, Launching
<1>7. /\ thread'[g].pc = "done" /\ thread'[g].by = thread[g].by
      /\ lease'[g].st = "unconfirmed"
  BY <1>3, <1>5 DEF Moved, Leased
<1>8. PlaceOf(g)' BY <1>2, <1>4, <1>6, <1>7 DEF PlaceOf, Alive, Launching
<1>9. LaunchKept(g)' BY <1>7 DEF LaunchKept, Launching
<1>10. ControlKnows' BY <1>4, <1>5, <1>6 DEF ProcessInv, ControlKnows, Leased, Alive
<1> QED BY <1>1, <1>3, <1>4, <1>5, <1>6, <1>8, <1>9, <1>10, LeaseOnly

\* The result is recorded: the process has ended, and a claimed run is left to its control.
LEMMA SettleInv == ASSUME ProcessInv, NEW g \in Gens, SettleRun(g) PROVE ProcessInv'
<1>1. ProcessTypeOK' BY ThreadTyping DEF ThreadStep
<1>2. PlaceOf(g) BY DEF ProcessInv, GenerationInv
<1>3. Moved(g, "done") BY GotoMoves DEF ProcessInv, SettleRun
<1>4. UNCHANGED <<sup, child, session, receipt, mem, ctl>> BY DEF SettleRun, osVars
<1>5. thread[g].pc = "settling" /\ ~Idle(g) /\ ~Alive(g) /\ lease[g].st # "none"
  BY <1>2 DEF SettleRun, At, Idle, PlaceOf
<1>6. thread'[g].pc = "done" /\ thread'[g].by = thread[g].by BY <1>3 DEF Moved
<1>7. LaunchKept(g)' BY <1>6 DEF LaunchKept, Launching
<1>8. CASE ctl.gen = g
  <2>1. LeasesKept /\ HandlesKept BY <1>4, <1>8 DEF LeasesKept, HandlesKept, SettleRun
  <2>2. PlaceOf(g)' BY <1>2, <1>4, <1>5, <1>6, <2>1 DEF PlaceOf, Alive, Launching, LeasesKept
  <2> QED BY <1>1, <1>3, <1>4, <1>5, <1>7, <2>1, <2>2, SupervisorsSame, ThreadOnly
<1>9. CASE ctl.gen # g
  <2>1. Leased(g, "released") BY <1>9, LeasedAlone DEF ProcessInv, SettleRun
  <2>2. lease'[g].st = "released" BY <2>1 DEF Leased
  <2>3. PlaceOf(g)' BY <1>2, <1>4, <1>5, <1>6, <2>2 DEF PlaceOf, Alive, Launching
  <2>4. ControlKnows' BY <1>4, <1>9, <2>1 DEF ProcessInv, ControlKnows, Leased, Alive
  <2> QED BY <1>1, <1>3, <1>4, <1>5, <1>7, <2>1, <2>3, <2>4, LeaseOnly
<1> QED BY <1>8, <1>9

\* Every step of a run thread.
LEMMA ThreadInv == ASSUME ProcessInv, NEW g \in Gens, ThreadStep(g) PROVE ProcessInv'
BY BeginInv, LaunchInv, SpawnInv, NotReadyInv, PublishInv, IdentifyInv, ConfirmInv, RejectInv,
   RejectCleansInv, RejectUnconfirmedInv, PermitInv, FinishInv, ReportInv, SettleInv
   DEF ThreadStep

\* A control that gives up takes back its reason and leaves the generation as it is.
LEMMA GiveUpInv ==
    ASSUME ProcessInv, ProcessTypeOK', GiveUp, ctl.pc \in Signalling,
           UNCHANGED <<sup, child, session, receipt, lease, thread>>
    PROVE  ProcessInv'
<1>1. ctl.by \in Procs /\ ctl.gen \in Gens /\ lease[ctl.gen].st = "confirmed"
  BY DEF ProcessInv, ControlKnows, Signalling
<1>2. HandlesKept BY <1>1 DEF ProcessInv, ProcessTypeOK, GiveUp, HandlesKept
<1>3. ctl'.pc = "claimed" /\ ctl'.gen = ctl.gen /\ ctl'.by = "none"
  BY DEF ProcessInv, ProcessTypeOK, GiveUp, NoControl
<1>4. ControlKnows' BY <1>1, <1>3 DEF ControlKnows, Signalling
<1>5. ReceiptKnows' /\ ReceiptIsTrue'
  BY DEF ProcessInv, ReceiptKnows, StopsExact, ReceiptIsTrue, Alive
<1> QED BY <1>2, <1>4, <1>5, ControlOnly

\* A control that finalizes has seen its generation end, the only confirmed one.
LEMMA FinalizeInv ==
    ASSUME ProcessInv, ProcessTypeOK', FinalizeOwned(ctl.by, TRUE),
           ctl' = [ctl EXCEPT !.pc = "stopped"], ctl.pc \in Signalling, ~Alive(ctl.gen),
           UNCHANGED <<sup, child, receipt, lease, thread>>
    PROVE  ProcessInv'
<1>1. ctl.gen \in Gens /\ lease[ctl.gen].st = "confirmed" /\ receipt.gen = ctl.gen
  BY DEF ProcessInv, ControlKnows, Signalling
<1>2. ctl'.pc = "stopped" /\ ctl'.gen = ctl.gen /\ ctl'.by = ctl.by
  BY DEF ProcessInv, ProcessTypeOK
<1>3. ControlKnows' BY <1>1, <1>2 DEF ProcessInv, ControlKnows, Signalling, Alive
<1>4. thread[ctl.gen].pc \notin Launching
  BY <1>1 DEF ProcessInv, GenerationInv, PlaceOf
<1> QED BY <1>1, <1>3, <1>4, HandlesOnly DEF Busy

\* Every step of a control.
LEMMA ControlInv == ASSUME ProcessInv, ControlStep PROVE ProcessInv'
<1>0. ProcessTypeOK' BY ControlTyping
<1>1. ASSUME NEW op \in Ops, ClaimControl(op) PROVE ProcessInv'
  <2>1. UNCHANGED <<sup, child, session, receipt, mem, lease, thread>> BY <1>1 DEF ClaimControl, osVars
  <2>2. PICK g \in Gens : /\ lease[g].st = "confirmed"
                          /\ ctl' = [NoControl EXCEPT !.pc = "claimed", !.op = op, !.gen = g]
    BY <1>1 DEF ClaimControl
  <2>3. ctl'.pc = "claimed" /\ ctl'.gen = g /\ ctl'.by = "none" BY <2>2 DEF NoControl
  <2>4. ControlKnows' BY <2>1, <2>2, <2>3 DEF ControlKnows, Signalling
  <2>5. HandlesKept BY <2>1 DEF HandlesKept
  <2>6. ReceiptKnows' /\ ReceiptIsTrue'
    BY <2>1 DEF ProcessInv, ReceiptKnows, StopsExact, ReceiptIsTrue, Alive
  <2> QED BY <1>0, <2>1, <2>4, <2>5, <2>6, ControlOnly
<1>2. ASSUME NEW p \in Procs, Capture(p) PROVE ProcessInv'
  <2>1. UNCHANGED <<sup, child, session, lease, thread>> BY <1>2 DEF Capture, osVars
  <2>2. ctl.gen \in Gens /\ lease[ctl.gen].st = "confirmed"
    BY <1>2 DEF ProcessInv, ControlKnows, Capture
  <2>3. HandlesKept BY <1>2, <2>2 DEF ProcessInv, ProcessTypeOK, Capture, HandlesKept
  <2>4. ctl'.pc = "captured" /\ ctl'.gen = ctl.gen /\ ctl'.by = p
    BY <1>2 DEF ProcessInv, ProcessTypeOK, Capture
  <2>5. /\ receipt'.gen = ctl.gen
        /\ receipt'.st = "confirmed" => receipt.st = "confirmed" /\ receipt.gen = ctl.gen
    BY <1>2 DEF Capture, SameControl
  <2>6. ControlKnows' BY <2>1, <2>2, <2>4, <2>5 DEF ControlKnows, Signalling
  <2>7. ReceiptKnows' BY <2>1, <2>2, <2>5 DEF ReceiptKnows
  <2>8. ReceiptIsTrue' BY <2>1, <2>5 DEF ProcessInv, StopsExact, ReceiptIsTrue, Alive
  <2> QED BY <1>0, <2>1, <2>3, <2>6, <2>7, <2>8, ControlOnly
<1>3. CASE Aim
  <2>0. ctl.pc \in Signalling /\ UNCHANGED <<sup, child, receipt, lease, thread>>
    BY <1>3 DEF Aim, Signalling, osVars
  <2>1. CASE GiveUp /\ UNCHANGED session BY <1>0, <2>0, <2>1, GiveUpInv
  <2>2. CASE /\ ctl' = [ctl EXCEPT !.pc = "aimed", !.proc = mem[ctl.by].proc,
                                   !.local = (LocalProc(ctl.by) # 0)]
             /\ UNCHANGED <<mem, session>>
    <3>1. ctl'.pc = "aimed" /\ ctl'.gen = ctl.gen /\ ctl'.by = ctl.by
      BY <2>2 DEF ProcessInv, ProcessTypeOK
    <3>2. ControlKnows' BY <2>0, <3>1 DEF ProcessInv, ControlKnows, Signalling
    <3>3. HandlesKept BY <2>2 DEF HandlesKept
    <3>4. ReceiptKnows' /\ ReceiptIsTrue'
      BY <2>0 DEF ProcessInv, ReceiptKnows, StopsExact, ReceiptIsTrue, Alive
    <3> QED BY <1>0, <2>0, <2>2, <3>2, <3>3, <3>4, ControlOnly
  <2>3. CASE /\ FinalizeOwned(ctl.by, TRUE) /\ ctl' = [ctl EXCEPT !.pc = "stopped"]
             /\ ~Alive(ctl.gen)
    BY <1>0, <2>0, <2>3, FinalizeInv
  <2> QED BY <1>3, <2>1, <2>2, <2>3 DEF Aim
<1>4. CASE Term
  <2>0. ctl.pc \in Signalling /\ UNCHANGED <<session, receipt, lease, thread>>
    BY <1>4 DEF Term, Signalling
  <2>1. CASE GiveUp /\ UNCHANGED osVars BY <1>0, <2>0, <2>1, GiveUpInv DEF osVars
  <2>2. CASE ~GiveUp \/ ~UNCHANGED osVars
    <3>1. /\ UNCHANGED mem
          /\ ctl' = [ctl EXCEPT !.pc = IF Alive(ctl.gen) THEN "termed" ELSE "gone"]
          /\ IF Alive(ctl.gen) THEN Terminate(ctl.gen) ELSE UNCHANGED osVars
      BY <1>4, <2>2 DEF Term
    <3>2. /\ ctl'.pc = IF Alive(ctl.gen) THEN "termed" ELSE "gone"
          /\ ctl'.gen = ctl.gen /\ ctl'.by = ctl.by
      BY <3>1 DEF ProcessInv, ProcessTypeOK
    <3>3. ctl.gen \in Gens /\ receipt.gen = ctl.gen
      BY <2>0 DEF ProcessInv, ControlKnows, Signalling
    <3>4. \A h \in Gens : /\ HarnessOf(h)'
                          /\ Alive(h)' => Alive(h)
                          /\ sup[h] = "none" => sup'[h] = "none"
      <4>1. CASE Alive(ctl.gen)
        <5>1. sup[ctl.gen] # "none" BY <4>1 DEF Alive, Supervised
        <5> QED BY <3>1, <3>3, <4>1, <5>1, TerminatedHarness
      <4>2. CASE ~Alive(ctl.gen) BY <3>1, <4>2, SupervisorsSame DEF osVars
      <4> QED BY <4>1, <4>2
    <3>5. HandlesKept BY <3>1 DEF HandlesKept
    <3>6. ControlKnows' BY <2>0, <3>2, <3>3, <3>4 DEF ProcessInv, ControlKnows, Signalling
    <3> QED BY <1>0, <2>0, <3>1, <3>4, <3>6, SignalledOnly
  <2> QED BY <2>1, <2>2
<1>5. CASE Kill
  <2>0. /\ ctl.pc \in Signalling /\ ctl.gen \in Gens
        /\ UNCHANGED <<session, receipt, lease, thread>>
    BY <1>5 DEF Kill, Signalling, ProcessInv, ControlKnows
  <2>1. CASE ~StillExact BY <1>0, <1>5, <2>0, <2>1, GiveUpInv DEF Kill, osVars
  <2>2. CASE StillExact
    <3>1. KillSupervisor(ctl.gen) /\ UNCHANGED <<mem, ctl>> BY <1>5, <2>2 DEF Kill
    <3>2. sup[ctl.gen] # "none" /\ ctl.gen \in Stubborn
      BY <1>5 DEF Kill, Alive, Supervised
    <3>3. \A h \in Gens : /\ HarnessOf(h)'
                          /\ Alive(h)' => Alive(h)
                          /\ sup[h] = "none" => sup'[h] = "none"
      BY <2>0, <3>1, <3>2, TerminatedHarness
    <3> QED BY <1>0, <2>0, <3>1, <3>3, SupervisorsOnly
  <2> QED BY <2>1, <2>2
<1>6. CASE Uncertain
  BY <1>0, <1>6, GiveUpInv DEF Uncertain, Signalling, osVars
<1>7. CASE FinalizeStop
  <2>0. ctl.pc \in Signalling /\ UNCHANGED <<sup, child, receipt, lease, thread>>
    BY <1>7 DEF FinalizeStop, Signalling, osVars
  <2>1. ~Alive(ctl.gen) BY <1>7 DEF FinalizeStop, ProcessInv, ControlKnows
  <2>2. CASE GiveUp /\ UNCHANGED session BY <1>0, <2>0, <2>2, GiveUpInv
  <2>3. CASE FinalizeOwned(ctl.by, TRUE) /\ ctl' = [ctl EXCEPT !.pc = "stopped"]
    BY <1>0, <2>0, <2>1, <2>3, FinalizeInv
  <2> QED BY <1>7, <2>2, <2>3 DEF FinalizeStop
<1>8. CASE ConfirmReceipt
  <2>1. UNCHANGED <<sup, child, session, mem, lease, thread>>
    BY <1>8 DEF ConfirmReceipt, osVars
  <2>2. /\ receipt'.st = "confirmed" /\ receipt'.gen = receipt.gen
        /\ ctl'.pc = "receipted" /\ ctl'.gen = ctl.gen /\ ctl'.by = ctl.by
    BY <1>8 DEF ProcessInv, ProcessTypeOK, ConfirmReceipt
  <2>3. /\ ctl.gen \in Gens /\ lease[ctl.gen].st = "confirmed" /\ receipt.gen = ctl.gen
        /\ ~Alive(ctl.gen)
    BY <1>8 DEF ProcessInv, ControlKnows, ConfirmReceipt, Signalling
  <2>4. HarnessOf(ctl.gen) BY <2>3 DEF ProcessInv, GenerationInv
  <2>5. ControlKnows' BY <2>1, <2>2, <2>3 DEF ControlKnows, Signalling, Alive
  <2>6. ReceiptKnows' BY <2>1, <2>2, <2>3 DEF ReceiptKnows
  <2>7. ReceiptIsTrue' BY <2>1, <2>2, <2>3, <2>4 DEF ReceiptIsTrue, HarnessOf, Alive
  <2>8. HandlesKept BY <2>1 DEF HandlesKept
  <2> QED BY <1>0, <2>1, <2>5, <2>6, <2>7, <2>8, ControlOnly
<1>9. CASE Complete
  <2>1. UNCHANGED <<sup, child, session, receipt, mem, thread>>
    BY <1>9 DEF Complete, osVars
  <2>2. PICK g \in Gens : g = ctl.gen /\ lease[g].st = "confirmed"
    BY <1>9 DEF Complete, ProcessInv, ControlKnows
  <2>3. PlaceOf(g) /\ LaunchKept(g) BY DEF ProcessInv, GenerationInv
  <2>4. ~Alive(g)
    BY <1>9, <2>2, <2>3 DEF Complete, ProcessInv, ControlKnows, PlaceOf, At
  <2>5. Leased(g, "released") BY <1>9, <2>2, LeasedAlone DEF ProcessInv, Complete
  <2>6. Moved(g, thread[g].pc) BY <2>1, LeasedAlone DEF ProcessInv
  <2>7. lease'[g].st = "released" BY <2>5 DEF Leased
  <2>8. PlaceOf(g)' BY <2>1, <2>2, <2>3, <2>4, <2>7 DEF PlaceOf, Alive
  <2>9. LaunchKept(g)' BY <2>1, <2>3 DEF LaunchKept
  <2>10. ControlKnows' BY <1>9 DEF Complete, NoControl, ControlKnows, Signalling
  <2> QED BY <1>0, <2>1, <2>2, <2>4, <2>5, <2>6, <2>8, <2>9, <2>10, LeaseOnly
<1> QED BY <1>1, <1>2, <1>3, <1>4, <1>5, <1>6, <1>7, <1>8, <1>9 DEF ControlStep

\* A crash takes the handles of one process and the threads that went by them.
LEMMA CrashInv == ASSUME ProcessInv, NEW p \in Procs, ProcessCrash(p) PROVE ProcessInv'
<1>1. ProcessTypeOK' BY OtherTyping
<1>2. UNCHANGED <<sup, child, session, receipt>> BY DEF ProcessCrash, osVars
<1>3. ASSUME NEW h \in Gens
      PROVE  /\ lease'[h].st = lease[h].st
             /\ thread'[h].by = thread[h].by
             /\ thread[h].by # p \/ Idle(h) => thread'[h].pc = thread[h].pc
             /\ ~(thread[h].by # p \/ Idle(h)) =>
                   thread'[h].pc = IF thread[h].pc = "begun" THEN "unstarted" ELSE "lost"
  <2>1. thread'[h] = IF thread[h].by # p \/ Idle(h) THEN thread[h]
                     ELSE [thread[h] EXCEPT !.pc = IF thread[h].pc = "begun" THEN "unstarted"
                                                   ELSE "lost"]
    BY DEF ProcessCrash
  <2>2. thread[h] \in ThreadRow BY TypeParts DEF ProcessInv, ThreadTyped
  <2>3. PICK b : lease'[h] = [lease[h] EXCEPT !.stale = b] BY DEF ProcessCrash
  <2>4. lease'[h].st = lease[h].st BY <2>3 DEF ProcessInv, ProcessTypeOK
  <2> QED BY <2>1, <2>2, <2>4 DEF ThreadRow
<1>4. \A q \in Procs : q # p => mem'[q].proc = mem[q].proc
  BY DEF ProcessInv, ProcessTypeOK, ProcessCrash
<1>5. OneAfterTheOther' BY <1>3, OrderKept DEF ProcessInv
<1>6. OneThreadEach'
  <2>1. \A h \in Gens : Idle(h) => Idle(h)' BY <1>3 DEF Idle
  <2> QED BY <1>3, <2>1, ThreadsKept DEF ProcessInv
<1>7. ASSUME NEW h \in Gens PROVE PlaceOf(h)' /\ LaunchKept(h)' /\ HarnessOf(h)'
  <2>0. PlaceOf(h) /\ LaunchKept(h) /\ HarnessOf(h) BY DEF ProcessInv, GenerationInv
  <2>1. HarnessOf(h)' BY <1>2, <2>0 DEF HarnessOf, Alive
  <2>2. CASE thread[h].by # p \/ Idle(h)
    <3>1. /\ thread'[h].pc = thread[h].pc /\ thread'[h].by = thread[h].by
          /\ lease'[h].st = lease[h].st
      BY <1>3, <2>2
    <3>2. PlaceOf(h)' BY <1>2, <2>0, <3>1 DEF PlaceOf, Alive
    <3>3. LaunchKept(h)'
      <4>1. CASE thread[h].pc \in Launching
        <5>1. thread[h].by \in Procs /\ thread[h].by # p
          BY <2>0, <2>2, <4>1 DEF PlaceOf, Launching, Idle
        <5> QED BY <1>2, <1>4, <2>0, <3>1, <5>1 DEF LaunchKept
      <4>2. CASE thread[h].pc \notin Launching BY <3>1, <4>2 DEF LaunchKept, Launching
      <4> QED BY <4>1, <4>2
    <3> QED BY <2>1, <3>2, <3>3
  <2>3. CASE ~(thread[h].by # p \/ Idle(h))
    <3>1. /\ thread'[h].pc = IF thread[h].pc = "begun" THEN "unstarted" ELSE "lost"
          /\ thread'[h].by = thread[h].by /\ lease'[h].st = lease[h].st
          /\ thread[h].pc # "none"
      BY <1>3, <2>3 DEF Idle
    <3>2. PlaceOf(h)' BY <1>2, <2>0, <3>1 DEF PlaceOf, Alive, Launching
    <3>3. LaunchKept(h)' BY <3>1 DEF LaunchKept, Launching
    <3> QED BY <2>1, <3>2, <3>3
  <2> QED BY <2>2, <2>3
<1>8. ControlKnows'
  <2>1. CASE ctl' = ctl BY <1>2, <1>3, <2>1 DEF ProcessInv, ControlKnows, Alive
  <2>2. CASE /\ ctl.by = p
             /\ ctl' = [NoControl EXCEPT !.pc = "claimed", !.op = ctl.op, !.gen = ctl.gen]
    <3>1. ctl.pc \in Signalling \cup {"receipted"} /\ ctl.pc # "none"
      BY <2>2, LaunchesAssumption, TypeParts
         DEF ProcessInv, ControlKnows, ControlTyped, ControlRow, ControlSteps
    <3>2. ctl'.pc = "claimed" /\ ctl'.gen = ctl.gen /\ ctl'.by = "none" BY <2>2 DEF NoControl
    <3> QED BY <1>3, <3>1, <3>2 DEF ProcessInv, ControlKnows, Signalling
  <2> QED BY <2>1, <2>2 DEF ProcessCrash
<1>9. ReceiptKnows' BY <1>2, <1>3 DEF ProcessInv, ReceiptKnows
<1>10. ReleasedIsDead' /\ ReceiptIsTrue'
  BY <1>2, <1>3 DEF ProcessInv, StopsExact, ReleasedIsDead, ReceiptIsTrue, Alive
<1>11. LiveIsReachable'
  <2> SUFFICES ASSUME NEW h \in Gens, lease[h].st = "confirmed", Alive(h)
               PROVE  /\ session = h
                      /\ thread'[h].pc \in {"confirmed", "running"} => mem'[thread'[h].by].proc = h
    BY <1>2, <1>3 DEF LiveIsReachable, Alive
  <2>1. /\ session = h
        /\ thread[h].pc \in {"confirmed", "running"} => mem[thread[h].by].proc = h
    BY DEF ProcessInv, StopsExact, LiveIsReachable
  <2>2. ASSUME thread'[h].pc \in {"confirmed", "running"} PROVE mem'[thread'[h].by].proc = h
    <3>1. thread'[h].pc = thread[h].pc /\ thread'[h].by = thread[h].by /\ thread[h].by # p
      BY <1>3, <2>2 DEF Idle
    <3>2. thread[h].by \in Procs BY <2>2, <3>1 DEF ProcessInv, GenerationInv, PlaceOf
    <3> QED BY <1>4, <2>1, <2>2, <3>1, <3>2
  <2> QED BY <2>1, <2>2
<1> QED BY <1>1, <1>5, <1>6, <1>7, <1>8, <1>9, <1>10, <1>11
        DEF ProcessInv, GenerationInv, StopsExact

\* A process that sleeps past the life of its leases: nothing else changes.
LEMMA StallInv == ASSUME ProcessInv, NEW p \in Procs, Stall(p) PROVE ProcessInv'
<1>1. ProcessTypeOK' BY OtherTyping
<1>2. UNCHANGED <<sup, child, session, receipt, mem, thread, ctl>> BY DEF Stall, osVars
<1>3. ASSUME NEW h \in Gens PROVE lease'[h].st = lease[h].st
  <2>1. PICK b : lease'[h] = [lease[h] EXCEPT !.stale = b] BY DEF Stall
  <2> QED BY <2>1 DEF ProcessInv, ProcessTypeOK
<1>4. OneAfterTheOther' BY <1>3, OrderKept DEF ProcessInv
<1>5. OneThreadEach' BY <1>2 DEF ProcessInv, OneThreadEach, Idle
<1>6. ASSUME NEW h \in Gens PROVE PlaceOf(h)' /\ LaunchKept(h)' /\ HarnessOf(h)'
  <2>1. PlaceOf(h)' BY <1>2, <1>3 DEF ProcessInv, GenerationInv, PlaceOf, Alive
  <2>2. LaunchKept(h)' BY <1>2 DEF ProcessInv, GenerationInv, LaunchKept
  <2>3. HarnessOf(h)' BY <1>2 DEF ProcessInv, GenerationInv, HarnessOf, Alive
  <2> QED BY <2>1, <2>2, <2>3
<1>7. ControlKnows' BY <1>2, <1>3 DEF ProcessInv, ControlKnows, Alive
<1>8. ReceiptKnows' BY <1>2, <1>3 DEF ProcessInv, ReceiptKnows
<1>9. ReleasedIsDead' /\ ReceiptIsTrue' /\ LiveIsReachable'
  BY <1>2, <1>3 DEF ProcessInv, StopsExact, ReleasedIsDead, ReceiptIsTrue, LiveIsReachable, Alive
<1> QED BY <1>1, <1>4, <1>5, <1>6, <1>7, <1>8, <1>9 DEF ProcessInv, GenerationInv, StopsExact

\* reconcile_worker touches places and permits only.
LEMMA ReobserveInv == ASSUME ProcessInv, NEW p \in Procs, Reobserve(p) PROVE ProcessInv'
<1>1. ProcessTypeOK' BY OtherTyping
<1>2. UNCHANGED <<sup, child, session, receipt, lease, thread, ctl>> BY DEF Reobserve
<1>3. HandlesKept
  <2> PICK slot : mem' = [mem EXCEPT ![p].slot = slot] BY DEF Reobserve
  <2> QED BY DEF ProcessInv, ProcessTypeOK, HandlesKept
<1>4. ControlKnows' BY <1>2 DEF ProcessInv, ControlKnows, Alive
<1>5. ReceiptKnows' /\ ReceiptIsTrue'
  BY <1>2 DEF ProcessInv, ReceiptKnows, StopsExact, ReceiptIsTrue, Alive
<1> QED BY <1>1, <1>2, <1>3, <1>4, <1>5, ControlOnly

\* The cleanup of a stale lease: no other generation is in use, and its own is dead after it.
LEMMA CleanUpInv ==
    ASSUME ProcessInv, ProcessTypeOK', NEW p \in Procs, NEW g \in Gens, CleanUp(p, g), Busy(g),
           thread[g].pc \notin Launching, ctl.gen # g
    PROVE  ProcessInv'
<1>0. OneBusy BY BusyAlone DEF ProcessInv
<1>1. UNCHANGED <<receipt, thread, ctl>> BY DEF CleanUp
<1>2. Leased(g, "released") BY LeasedAlone DEF ProcessInv, CleanUp, ReleaseLease
<1>3. ASSUME NEW h \in Gens PROVE HarnessOf(h)' /\ (Alive(h)' => Alive(h))
  BY SignalledHarness DEF ProcessInv, GenerationInv, CleanUp
<1>4. ASSUME NEW h \in Gens, sup[h] = "none" PROVE sup'[h] = "none"
  BY <1>4 DEF ProcessInv, ProcessTypeOK, CleanUp, StopAndWait, Alive, Supervised
<1>5. ~Alive(g)'
  BY DEF ProcessInv, ProcessTypeOK, CleanUp, StopAndWait, Alive, Supervised
<1>6. \A h \in Gens : h # g => lease[h].st \in {"none", "released"}
  BY <1>0 DEF OneBusy, Busy
<1>7. OneAfterTheOther' BY <1>2, OrderKept DEF ProcessInv, Leased, Busy
<1>8. OneThreadEach' BY <1>1 DEF ProcessInv, OneThreadEach, Idle
<1>9. ASSUME NEW h \in Gens PROVE PlaceOf(h)' /\ LaunchKept(h)'
  <2>0. PlaceOf(h) BY DEF ProcessInv, GenerationInv
  <2>1. thread[h].pc \notin Launching BY <1>6, <2>0 DEF PlaceOf
  <2>2. LaunchKept(h)' BY <1>1, <2>1 DEF LaunchKept, Launching
  <2>3. CASE h = g
    <3>1. lease'[g].st = "released" /\ lease[g].st # "none" BY <1>2 DEF Leased, Busy
    <3>2. PlaceOf(g)' BY <1>1, <1>4, <1>5, <2>0, <2>1, <2>3, <3>1 DEF PlaceOf, Launching
    <3> QED BY <2>2, <2>3, <3>2
  <2>4. CASE h # g
    <3>1. lease'[h].st = lease[h].st BY <1>2, <2>4 DEF Leased
    <3>2. PlaceOf(h)' BY <1>1, <1>3, <1>4, <2>0, <3>1 DEF PlaceOf
    <3> QED BY <2>2, <3>2
  <2> QED BY <2>3, <2>4
<1>10. ControlKnows'
  <2>1. ctl.pc = "none" /\ ctl.by = "none" BY <1>6 DEF ProcessInv, ControlKnows
  <2> QED BY <1>1, <2>1 DEF ControlKnows, Signalling
<1>11. ReceiptKnows' BY <1>1, <1>2 DEF ProcessInv, ReceiptKnows, Leased
<1>12. ReleasedIsDead' BY <1>2, <1>3, <1>5 DEF ProcessInv, StopsExact, ReleasedIsDead, Leased
<1>13. LiveIsReachable' BY <1>2, <1>6 DEF LiveIsReachable, Leased
<1>14. ReceiptIsTrue'
  BY <1>1, <1>3, <1>11 DEF ProcessInv, StopsExact, ReceiptIsTrue, ReceiptKnows, HarnessOf
<1> QED BY <1>3, <1>7, <1>8, <1>9, <1>10, <1>11, <1>12, <1>13, <1>14
        DEF ProcessInv, GenerationInv, StopsExact

\* Every step of a reconciliation.
LEMMA ReconcileInv ==
    ASSUME ProcessInv, NEW p \in Procs, NEW g \in Gens, ReconcileStep(p, g) PROVE ProcessInv'
<1>0. OneBusy BY BusyAlone DEF ProcessInv
<1>1. ProcessTypeOK' BY OtherTyping
<1>2. PlaceOf(g) /\ LaunchKept(g) BY DEF ProcessInv, GenerationInv
<1>3. UNCHANGED thread => Moved(g, thread[g].pc) BY LeasedAlone DEF ProcessInv
<1>4. CASE RequeueUninvoked(g)
  <2>1. /\ UNCHANGED <<sup, child, session, receipt, mem, thread, ctl>>
        /\ lease[g].st = "reserved" /\ ctl.gen # g /\ thread[g].pc \in {"begun", "unstarted"}
    BY <1>4 DEF RequeueUninvoked, Reconcilable, osVars
  <2>2. Leased(g, "released")
    BY <1>4, LeasedAlone DEF ProcessInv, RequeueUninvoked, ReleaseLease
  <2>3. lease'[g].st = "released" BY <2>2 DEF Leased
  <2>4. ~Alive(g) BY <1>2, <2>1 DEF PlaceOf, Alive, Supervised
  <2>5. PlaceOf(g)' BY <1>2, <2>1, <2>3, <2>4 DEF PlaceOf, Alive, Launching
  <2>6. LaunchKept(g)' BY <1>2, <2>1 DEF LaunchKept
  <2>7. ControlKnows' BY <2>1, <2>2 DEF ProcessInv, ControlKnows, Leased, Alive
  <2> QED BY <1>1, <1>3, <2>1, <2>2, <2>4, <2>5, <2>6, <2>7, LeaseOnly
<1>5. CASE Adopt(g)
  <2>1. /\ UNCHANGED <<sup, child, session, receipt, mem, thread, ctl>>
        /\ lease[g].st = "reserved" /\ ctl.gen # g /\ thread[g].pc = "lost" /\ session = g
    BY <1>5 DEF Adopt, Reconcilable, osVars, At, Survives
  <2>2. Leased(g, "confirmed") BY <1>5, LeasedAlone DEF ProcessInv, Adopt
  <2>3. lease'[g].st = "confirmed" BY <2>2 DEF Leased
  <2>5. PlaceOf(g)' BY <1>2, <2>1, <2>3 DEF PlaceOf, Alive, Launching
  <2>6. LaunchKept(g)' BY <1>2, <2>1 DEF LaunchKept
  <2>7. ControlKnows' BY <2>1, <2>2 DEF ProcessInv, ControlKnows, Leased, Alive
  <2>8. LiveIsReachable'
    <3>1. \A h \in Gens : lease'[h].st = "confirmed" => h = g
      BY <1>0, <2>1, <2>2 DEF Leased, OneBusy, Busy
    <3> QED BY <2>1, <3>1 DEF LiveIsReachable
  <2> QED BY <1>1, <1>3, <2>1, <2>2, <2>5, <2>6, <2>7, <2>8, LeaseOnly
<1>6. CASE MarkUnconfirmed(g)
  <2>1. /\ UNCHANGED <<sup, child, session, receipt, mem, thread, ctl>>
        /\ lease[g].st = "reserved" /\ ctl.gen # g /\ thread[g].pc = "lost"
    BY <1>6 DEF MarkUnconfirmed, Reconcilable, osVars, At
  <2>2. Leased(g, "unconfirmed") BY <1>6, LeasedAlone DEF ProcessInv, MarkUnconfirmed
  <2>3. lease'[g].st = "unconfirmed" BY <2>2 DEF Leased
  <2>5. PlaceOf(g)' BY <1>2, <2>1, <2>3 DEF PlaceOf, Alive, Launching
  <2>6. LaunchKept(g)' BY <1>2, <2>1 DEF LaunchKept
  <2>7. ControlKnows' BY <2>1, <2>2 DEF ProcessInv, ControlKnows, Leased, Alive
  <2> QED BY <1>1, <1>3, <2>1, <2>2, <2>5, <2>6, <2>7, LeaseOnly
<1>7. CASE CleanReserved(p, g) \/ CleanUnconfirmed(p, g) \/ RetireDead(p, g)
  <2>1. /\ CleanUp(p, g) /\ ctl.gen # g
        /\ \/ lease[g].st = "reserved" /\ thread[g].pc = "lost"
           \/ lease[g].st = "unconfirmed" \/ lease[g].st = "confirmed"
    BY <1>7 DEF CleanReserved, CleanUnconfirmed, RetireDead, Reconcilable, At
  <2>2. Busy(g) /\ thread[g].pc \notin Launching BY <1>2, <2>1 DEF Busy, PlaceOf, Launching
  <2> QED BY <1>1, <2>1, <2>2, CleanUpInv
<1> QED BY <1>4, <1>5, <1>6, <1>7 DEF ReconcileStep

-----------------------------------------------------------------------------
\* A worker that has launched nothing yet.
LEMMA ProcessStart == ProcessInit => ProcessInv
<1> SUFFICES ASSUME ProcessInit PROVE ProcessInv
  OBVIOUS
<1>0. 0 \in 0 .. MaxGen /\ 0 \in 0 .. MaxControls /\ 0 \in 0 .. MaxCrashes /\ 0 \in 0 .. MaxMishaps
  BY LaunchesAssumption
<1>1. ProcessTypeOK
  <2>1. OsTyped BY <1>0 DEF ProcessInit, OsTyped, SupStates, ChildStates, FileRow
  <2>2. SharedTyped BY <1>0 DEF ProcessInit, SharedTyped, ReceiptRow
  <2>3. NoMem \in MemRow BY <1>0 DEF NoMem, NoSlot, MemRow, SlotRow, ReasonRow
  <2>4. MemTyped BY <2>3 DEF ProcessInit, MemTyped
  <2>5. LeaseTyped BY DEF ProcessInit, LeaseTyped, NoLease, LeaseRow
  <2>6. ThreadTyped BY DEF ProcessInit, ThreadTyped, NoThread, ThreadRow, ThreadSteps, Outs
  <2>7. ControlTyped BY <1>0, ClaimedTypes DEF ProcessInit, ControlTyped
  <2>8. SpentTyped BY <1>0 DEF ProcessInit, SpentTyped, SpentRow
  <2> QED BY <2>1, <2>2, <2>4, <2>5, <2>6, <2>7, <2>8, TypeParts
<1>2. \A g \in Gens : /\ sup[g] = "none" /\ child[g] = "none" /\ ~Alive(g)
                      /\ lease[g].st = "none" /\ thread[g].pc = "none"
  BY DEF ProcessInit, NoLease, NoThread, Alive, Supervised
<1>3. OneAfterTheOther /\ OneThreadEach BY <1>2 DEF OneAfterTheOther, OneThreadEach, Idle
<1>4. GenerationInv
  BY <1>2 DEF GenerationInv, PlaceOf, LaunchKept, HarnessOf, Launching
<1>5. ControlKnows BY DEF ProcessInit, NoControl, ControlKnows, Signalling
<1>6. ReceiptKnows BY DEF ProcessInit, ReceiptKnows
<1>7. StopsExact
  BY <1>2 DEF ProcessInit, StopsExact, ReleasedIsDead, LiveIsReachable, ReceiptIsTrue
<1> QED BY <1>1, <1>3, <1>4, <1>5, <1>6, <1>7 DEF ProcessInv

\* No step of a supervisor, a thread, a control, a reconciliation or a crash breaks it.
LEMMA ProcessStep == ProcessInv /\ [ProcessNext]_pvars => ProcessInv'
<1> SUFFICES ASSUME ProcessInv, [ProcessNext]_pvars PROVE ProcessInv'
  OBVIOUS
<1>1. ASSUME NEW g \in Gens, SupervisorStep(g) PROVE ProcessInv' BY <1>1, SupervisorInv
<1>2. ASSUME NEW g \in Gens, ThreadStep(g) PROVE ProcessInv' BY <1>2, ThreadInv
<1>3. CASE ControlStep BY <1>3, ControlInv
<1>4. ASSUME NEW p \in Procs, ProcessCrash(p) \/ Stall(p) \/ Reobserve(p) PROVE ProcessInv'
  BY <1>4, CrashInv, StallInv, ReobserveInv
<1>5. ASSUME NEW p \in Procs, NEW g \in Gens, ReconcileStep(p, g) PROVE ProcessInv'
  BY <1>5, ReconcileInv
<1>6. CASE UNCHANGED pvars
  <2>1. UNCHANGED <<lane, sup, child, files, session, receipt, mem, lease, thread, ctl, spent>>
    BY <1>6 DEF pvars
  <2>2. ProcessTypeOK'
    BY <2>1, TypeParts, TypePartsNext, UnchangedTypes DEF ProcessInv, osVars
  <2>3. HandlesKept BY <2>1 DEF HandlesKept
  <2>4. ControlKnows' BY <2>1 DEF ProcessInv, ControlKnows, Alive
  <2>5. ReceiptKnows' /\ ReceiptIsTrue'
    BY <2>1 DEF ProcessInv, ReceiptKnows, StopsExact, ReceiptIsTrue, Alive
  <2> QED BY <2>1, <2>2, <2>3, <2>4, <2>5, ControlOnly
<1> QED BY <1>1, <1>2, <1>3, <1>4, <1>5, <1>6 DEF ProcessNext

\* ProcessInv is an invariant of every worker, whatever the launches, the controls, the
\* crashes and the service processes that share its runtime root.
THEOREM ProcessCorrect == ProcessSpec => []ProcessInv
BY ProcessStart, ProcessStep, PTL DEF ProcessSpec

\* The rows, files and handles have their types.
THEOREM ProcessTypes == ProcessSpec => []ProcessTypeOK
<1>1. ProcessInv => ProcessTypeOK BY DEF ProcessInv
<1> QED BY <1>1, ProcessCorrect, PTL

\* Stops are exact: a released lease leaves no supervisor, a live confirmed generation is the
\* one its session file and its handle name, and a confirmed receipt names a dead one
\* (_stop_active_process, _finalize_owned_host_generation, cleanup_unconfirmed_run_start).
THEOREM StopsAreExact == ProcessSpec => []StopsExact
<1>1. ProcessInv => StopsExact BY DEF ProcessInv
<1> QED BY <1>1, ProcessCorrect, PTL

\* At most one generation of a worker is in use, and so at most one supervisor is confirmed,
\* launching or unaccounted for (active_host_run_leases and its callers).
THEOREM OneGenerationInUse == ProcessSpec => []OneBusy
<1>1. ProcessInv => OneBusy BY BusyAlone DEF ProcessInv
<1> QED BY <1>1, ProcessCorrect, PTL

\* A signal does not revive anybody.
LEMMA SignalledStaysDead ==
    ASSUME ProcessTypeOK, NEW g \in Gens, NEW h \in Gens, sup[g] = "dead",
           Terminate(h) \/ KillSupervisor(h) \/ StopAndWait(h)
    PROVE  sup'[g] = "dead"
BY DEF ProcessTypeOK, Terminate, KillSupervisor, StopAndWait, Alive, Supervised

\* A supervisor that has ended never comes back: every later signal, cleanup and control of
\* its generation meets a dead one (_spawn_durable_host_process, stop_process).
THEOREM DeadStaysDead ==
    ProcessSpec => [][\A g \in Gens : sup[g] = "dead" => sup'[g] = "dead"]_pvars
<1>1. ASSUME ProcessInv, ProcessNext, NEW g \in Gens, sup[g] = "dead" PROVE sup'[g] = "dead"
  <2>0. ProcessTypeOK BY <1>1 DEF ProcessInv
  <2>1. ASSUME NEW h \in Gens, SupervisorStep(h) PROVE sup'[g] = "dead"
    BY <1>1, <2>0, <2>1 DEF ProcessTypeOK, SupervisorStep, SupervisorReady, SupervisorAuthors,
       HandshakeTimesOut, HarnessEnds, SupervisorStops, SupervisorEnds
  <2>2. ASSUME NEW h \in Gens, ThreadStep(h) PROVE sup'[g] = "dead"
    <3>1. CASE Spawn(h)
      <4>1. sup[h] = "none"
        BY <1>1, <3>1 DEF ProcessInv, GenerationInv, PlaceOf, Spawn, At
      <4> QED BY <1>1, <2>0, <3>1, <4>1 DEF ProcessTypeOK, Spawn
    <3>2. CASE NotReady(h) \/ Reject(h) \/ RejectKills(h)
      BY <1>1, <2>0, <3>2, SignalledStaysDead DEF NotReady, Reject, RejectKills
    <3>3. CASE ~(Spawn(h) \/ NotReady(h) \/ Reject(h) \/ RejectKills(h))
      BY <1>1, <2>2, <3>3 DEF ThreadStep, Begin, Invoke, SeeReady, Publish, Identify, Confirm,
         RejectCleans, RejectUnconfirmed, Permit, Ended, Finish, Report, SettleRun, osVars
    <3> QED BY <3>1, <3>2, <3>3
  <2>3. CASE ControlStep
    <3>1. ctl.pc # "none" => ctl.gen \in Gens BY <1>1 DEF ProcessInv, ControlKnows
    <3>2. CASE Term
      <4>1. Terminate(ctl.gen) \/ UNCHANGED sup BY <3>2 DEF Term, osVars
      <4> QED BY <1>1, <2>0, <3>1, <3>2, <4>1, SignalledStaysDead DEF Term
    <3>3. CASE Kill
      <4>1. KillSupervisor(ctl.gen) \/ UNCHANGED sup BY <3>3 DEF Kill, osVars
      <4> QED BY <1>1, <2>0, <3>1, <3>3, <4>1, SignalledStaysDead DEF Kill
    <3>4. CASE ~(Term \/ Kill)
      BY <1>1, <2>3, <3>4 DEF ControlStep, ClaimControl, Capture, Aim, Uncertain, FinalizeStop,
         ConfirmReceipt, Complete, osVars
    <3> QED BY <3>2, <3>3, <3>4
  <2>4. ASSUME NEW p \in Procs, ProcessCrash(p) \/ Stall(p) \/ Reobserve(p) PROVE sup'[g] = "dead"
    BY <1>1, <2>4 DEF ProcessCrash, Stall, Reobserve, osVars
  <2>5. ASSUME NEW p \in Procs, NEW h \in Gens, ReconcileStep(p, h) PROVE sup'[g] = "dead"
    <3>1. CASE RequeueUninvoked(h) \/ Adopt(h) \/ MarkUnconfirmed(h)
      BY <1>1, <3>1 DEF RequeueUninvoked, Adopt, MarkUnconfirmed, osVars
    <3>2. CASE StopAndWait(h) BY <1>1, <2>0, <3>2, SignalledStaysDead
    <3> QED BY <2>5, <3>1, <3>2
            DEF ReconcileStep, CleanReserved, CleanUnconfirmed, RetireDead, CleanUp
  <2> QED BY <1>1, <2>1, <2>2, <2>3, <2>4, <2>5 DEF ProcessNext
<1>2. ProcessInv /\ [ProcessNext]_pvars =>
        [\A g \in Gens : sup[g] = "dead" => sup'[g] = "dead"]_pvars
  BY <1>1
<1> QED BY <1>2, ProcessCorrect, PTL DEF ProcessSpec

-----------------------------------------------------------------------------
(* QueueNotices: what the argument needs to know of rows and passes.         *)

WaitStates == Waiting \cup {"needs_input", "ended", "timed_out"}
WaitRow == [st : WaitStates, att : Nat, open : BOOLEAN, gen : Nat, deadline : Nat, next : Nat,
            times : Nat, sent : BOOLEAN, seq : Nat, cb : {"unknown", "enqueued", "unavailable"}]
Notice == [kind : {"transition", "refresh", "timeout"}, gen : Nat, seq : Nat]
PassRow == [pc : {"idle", "timeouts", "expire", "status", "refresh"}, late : Nat, due : Nat,
            row : {NoRow} \cup WaitRow]

WaitTypes ==
    /\ run \in WaitRow /\ log \in Seq(Notice)
    /\ pass \in [Passes -> PassRow]
    /\ \A p \in Passes : pass[p].pc \in {"expire", "refresh"} => pass[p].row \in WaitRow
    /\ telling \subseteq WaitRow
    /\ run.st \in {"running", "needs_input"} => ~run.open

\* Times are numbered in their order, and a refresh was read when it had come, of a wait whose
\* deadline had not.
TimesNumbered ==
    /\ run.deadline <= run.times /\ run.next <= run.times
    /\ \A p \in Passes : /\ pass[p].late <= run.times /\ pass[p].due <= run.times
                         /\ pass[p].pc = "refresh" =>
                               /\ pass[p].row.next = pass[p].due /\ pass[p].row.next # None
                               /\ pass[p].row.deadline # pass[p].late

\* What the row says of the notices of its wait, and of the timeout.
StoryInv ==
    /\ NoticesInOrder /\ TimeoutIsTold
    /\ ~sink => log = <<>>
    /\ \A i \in DOMAIN log :
          /\ log[i].gen <= run.gen
          /\ log[i].gen = run.gen /\ log[i].kind = "transition" => run.sent
          /\ log[i].gen = run.gen /\ log[i].kind = "refresh" => log[i].seq <= run.seq

\* The last refresh that the row counts was told in its wait; or the row counts those of an earlier
\* wait (a downgraded run keeps them), and nobody refreshes it before the deadline.
LastToldIn == \E i \in DOMAIN log : log[i].kind = "refresh" /\ log[i].gen = run.gen
                                                           /\ log[i].seq = run.seq
LastTold == sink => run.seq = 0 \/ LastToldIn
Unrefreshed ==
    \/ run.next = None
    \/ late /\ \A p \in Passes :
                  pass[p].pc # "idle" => pass[p].due # run.next \/ pass[p].late = run.deadline

NoticesInv == WaitTypes /\ TimesNumbered /\ StoryInv /\ (LastTold \/ Unrefreshed)

-----------------------------------------------------------------------------
LEMMA NoticesStart == ASSUME QueueInit PROVE NoticesInv
<1>1. WaitTypes
  BY DEF QueueInit, WaitTypes, WaitRow, WaitStates, Waiting, PassRow, IdlePass, None
<1>2. TimesNumbered
  BY DEF QueueInit, TimesNumbered, IdlePass, None
<1>3. StoryInv
  BY DEF QueueInit, StoryInv, NoticesInOrder, TimeoutIsTold
<1>4. LastTold
  BY DEF QueueInit, LastTold
<1>5. QED BY <1>1, <1>2, <1>3, <1>4 DEF NoticesInv

(* A step that tells nothing.                                                *)
LEMMA StoryStays ==
    ASSUME NoticesInv, UNCHANGED <<log, sink>>, run' \in WaitRow, run'.gen >= run.gen,
           run'.gen = run.gen => run'.sent = run.sent /\ run'.seq = run.seq,
           run'.st = "timed_out" <=> run.st = "timed_out"
    PROVE  StoryInv'
<1> USE DEF NoticesInv, WaitTypes
<1>1. NoticesInOrder' /\ TimeoutIsTold'
  BY DEF StoryInv, NoticesInOrder, TimeoutIsTold
<1>2. \A i \in DOMAIN log : log[i] \in Notice
  OBVIOUS
<1>3. run.gen \in Nat /\ run'.gen \in Nat /\ \A i \in DOMAIN log : log[i].gen \in Nat
  BY <1>2 DEF Notice, WaitRow
<1> HIDE DEF NoticesInv, WaitTypes
<1>4. \A i \in DOMAIN log : log[i].gen = run'.gen => run'.gen = run.gen
  BY <1>3 DEF NoticesInv, StoryInv
<1>5. QED BY <1>1, <1>3, <1>4 DEF NoticesInv, StoryInv

(* A step that enters a notice of the current wait.                          *)
LEMMA StoryGoesOn ==
    ASSUME NoticesInv, UNCHANGED sink, run' \in WaitRow, run'.gen = run.gen, run.st # "timed_out",
           NEW n \in Notice, n.gen = run.gen, log' = IF sink THEN Append(log, n) ELSE log,
           run.sent => run'.sent, run'.seq >= run.seq,
           n.kind = "transition" => ~run.sent /\ run'.sent,
           n.kind = "refresh" => n.seq = run.seq + 1 /\ run'.seq = n.seq /\ LastTold,
           n.kind = "timeout" <=> run'.st = "timed_out"
    PROVE  StoryInv' /\ log' \in Seq(Notice) /\ (n.kind = "refresh" => LastTold')
<1>1. CASE ~sink
  <2>1. log = <<>> /\ log' = <<>> /\ ~sink'
    BY <1>1 DEF NoticesInv, StoryInv
  <2>2. QED BY <2>1 DEF StoryInv, NoticesInOrder, TimeoutIsTold, LastTold
<1>2. CASE sink
  <2> DEFINE N == Len(log) + 1
  <2>1. log \in Seq(Notice)
    BY DEF NoticesInv, WaitTypes
  <2>2. /\ log' = Append(log, n) /\ log' \in Seq(Notice) /\ N \in Nat /\ sink'
        /\ DOMAIN log = 1 .. (N - 1) /\ DOMAIN log' = 1 .. N
        /\ log'[N] = n /\ \A i \in 1 .. (N - 1) : log'[i] = log[i]
    BY <1>2, <2>1
  <2>3. \A i \in 1 .. (N - 1) :
           /\ log[i] \in Notice /\ log[i].gen \in Nat /\ log[i].seq \in Nat
           /\ DOMAIN log[i] = {"kind", "gen", "seq"}
           /\ log[i].kind \in {"transition", "refresh", "timeout"}
    <3>1. \A i \in 1 .. (N - 1) : log[i] \in Notice
      BY <2>1, <2>2
    <3>2. QED BY <3>1 DEF Notice
  <2>4. /\ run.gen \in Nat /\ run.seq \in Nat /\ run'.seq \in Nat
        /\ n.seq \in Nat /\ n.kind \in {"transition", "refresh", "timeout"}
        /\ DOMAIN n = {"kind", "gen", "seq"}
    BY DEF NoticesInv, WaitTypes, WaitRow, Notice
  <2>5. /\ \A i \in 1 .. (N - 1) :
              /\ log[i].gen <= run.gen
              /\ log[i].gen = run.gen /\ log[i].kind = "transition" => run.sent
              /\ log[i].gen = run.gen /\ log[i].kind = "refresh" => log[i].seq <= run.seq
        /\ NoticesInOrder /\ TimeoutIsTold
    BY <2>2 DEF NoticesInv, StoryInv
  <2>6. \A i \in 1 .. (N - 1) : log[i].kind # "timeout"
    BY <1>2, <2>2, <2>5 DEF TimeoutIsTold
  <2> HIDE DEF N
  <2>7. TimeoutIsTold'
    <3>1. (\E i \in DOMAIN log' : log'[i].kind = "timeout") <=> n.kind = "timeout"
      BY <2>2, <2>6
    <3>2. QED BY <2>2, <3>1 DEF TimeoutIsTold
  <2>8. \A i \in 1 .. (N - 1) : log[i] # n
    BY <2>3, <2>4, <2>5, <2>6
  <2>9. ASSUME n.kind = "refresh", n.seq > 1
        PROVE  \E j \in 1 .. (N - 1) : log[j] = [n EXCEPT !.seq = @ - 1]
    <3>1. PICK j \in 1 .. (N - 1) : log[j].kind = "refresh" /\ log[j].gen = run.gen /\ log[j].seq = run.seq
      BY <1>2, <2>2, <2>4, <2>9 DEF LastTold, LastToldIn
    <3>2. DOMAIN [n EXCEPT !.seq = @ - 1] = DOMAIN n
      OBVIOUS
    <3>3. log[j] = [n EXCEPT !.seq = @ - 1]
      BY <2>3, <2>4, <2>9, <3>1, <3>2 DEF Notice
    <3>4. QED BY <3>3
  <2>10. NoticesInOrder'
    <3>1. \A i, j \in 1 .. N : i < j =>
             /\ log'[i].gen <= log'[j].gen /\ log'[i].kind # "timeout"
             /\ log'[i].gen = log'[j].gen /\ log'[j].kind = "transition" => log'[i].kind = "refresh"
      <4>1. TAKE i, j \in 1 .. N
      <4>2. HAVE i < j
      <4>3. i \in 1 .. (N - 1) /\ log'[i] = log[i]
        BY <2>2, <4>2
      <4>4. CASE j = N
        BY <2>2, <2>3, <2>5, <2>6, <4>3, <4>4
      <4>5. CASE j # N
        <5>1. j \in 1 .. (N - 1) /\ log'[j] = log[j]
          BY <2>2, <4>5
        <5>2. QED BY <2>2, <2>5, <4>2, <4>3, <5>1 DEF NoticesInOrder
      <4>6. QED BY <4>4, <4>5
    <3>2. \A i \in 1 .. N : log'[i].kind = "refresh" /\ log'[i].seq > 1
             => \E j \in 1 .. (i - 1) : log'[j] = [log'[i] EXCEPT !.seq = @ - 1]
      <4>1. TAKE i \in 1 .. N
      <4>2. HAVE log'[i].kind = "refresh" /\ log'[i].seq > 1
      <4>3. CASE i = N
        <5>1. PICK j \in 1 .. (N - 1) : log[j] = [n EXCEPT !.seq = @ - 1]
          BY <2>2, <2>9, <4>2, <4>3
        <5>2. QED BY <2>2, <4>3, <5>1
      <4>4. CASE i # N
        <5>1. i \in 1 .. (N - 1) /\ log'[i] = log[i]
          BY <2>2, <4>4
        <5>2. PICK j \in 1 .. (i - 1) : log[j] = [log[i] EXCEPT !.seq = @ - 1]
          BY <2>2, <2>5, <4>2, <5>1 DEF NoticesInOrder
        <5>3. j \in 1 .. (N - 1)
          BY <2>2, <5>1
        <5>4. QED BY <2>2, <5>1, <5>2, <5>3
      <4>5. QED BY <4>3, <4>4
    <3>3. \A i, j \in 1 .. N : log'[i] = log'[j] => i = j
      <4>1. TAKE i, j \in 1 .. N
      <4>2. CASE i = N \/ j = N
        BY <2>2, <2>8, <4>2
      <4>3. CASE i # N /\ j # N
        <5>1. i \in 1 .. (N - 1) /\ j \in 1 .. (N - 1)
          BY <2>2, <4>3
        <5>2. QED BY <2>2, <2>5, <5>1 DEF NoticesInOrder
      <4>4. QED BY <4>2, <4>3
    <3>4. QED BY <2>2, <3>1, <3>2, <3>3 DEF NoticesInOrder
  <2>11. \A i \in DOMAIN log' :
            /\ log'[i].gen <= run'.gen
            /\ log'[i].gen = run'.gen /\ log'[i].kind = "transition" => run'.sent
            /\ log'[i].gen = run'.gen /\ log'[i].kind = "refresh" => log'[i].seq <= run'.seq
    <3>1. TAKE i \in DOMAIN log'
    <3>2. CASE i = N
      BY <2>2, <2>4, <3>2
    <3>3. CASE i # N
      <4>1. i \in 1 .. (N - 1) /\ log'[i] = log[i]
        BY <2>2, <3>3
      <4>2. QED BY <2>3, <2>4, <2>5, <4>1
    <3>4. QED BY <3>2, <3>3
  <2>12. ASSUME n.kind = "refresh" PROVE LastTold'
    <3>1. N \in DOMAIN log' /\ log'[N].kind = "refresh" /\ log'[N].gen = run'.gen /\ log'[N].seq = run'.seq
      BY <2>2, <2>12
    <3>2. QED BY <3>1 DEF LastTold, LastToldIn
  <2>13. QED BY <2>2, <2>7, <2>10, <2>11, <2>12 DEF StoryInv
<1>3. QED BY <1>1, <1>2

(* The row moves without a notice.                                           *)
LEMMA WaitMoves ==
    ASSUME NoticesInv, UNCHANGED <<log, sink, pass>>, run' \in WaitRow,
           run'.times >= run.times, run'.deadline <= run'.times, run'.next <= run'.times,
           run'.gen >= run.gen,
           run'.gen = run.gen => run'.sent = run.sent /\ run'.seq = run.seq,
           run'.st = "timed_out" <=> run.st = "timed_out",
           run'.st \in {"running", "needs_input"} => ~run'.open,
           telling' = telling \/ telling' = telling \cup {run'}
    PROVE  WaitTypes' /\ TimesNumbered' /\ StoryInv'
<1>1. WaitTypes'
  BY DEF NoticesInv, WaitTypes
<1>2. TimesNumbered'
  <2>1. /\ run.times \in Nat /\ run'.times \in Nat
        /\ \A p \in Passes : pass[p].late \in Nat /\ pass[p].due \in Nat
    BY DEF NoticesInv, WaitTypes, WaitRow, PassRow
  <2>2. QED BY <2>1 DEF NoticesInv, TimesNumbered
<1>3. QED BY <1>1, <1>2, StoryStays

(* A pass moves and the row does not.                                        *)
LEMMA PassMoves ==
    ASSUME NoticesInv, UNCHANGED <<run, late, log, sink, telling>>, NEW p \in Passes,
           NEW new \in PassRow, pass' = [pass EXCEPT ![p] = new],
           new.pc \in {"expire", "refresh"} => new.row = run,
           new.pc = "refresh" => run.next = new.due /\ run.next # None /\ run.deadline # new.late,
           new.late <= run.times, new.due <= run.times,
           new.pc # "idle" => \/ pass[p].pc # "idle" /\ new.late = pass[p].late /\ new.due = pass[p].due
                              \/ late => new.late = run.deadline
    PROVE  NoticesInv'
<1>1. /\ pass'[p] = new /\ \A q \in Passes : q # p => pass'[q] = pass[q]
      /\ pass' \in [Passes -> PassRow]
  BY DEF NoticesInv, WaitTypes
<1>2. WaitTypes'
  BY <1>1 DEF NoticesInv, WaitTypes
<1>3. TimesNumbered'
  BY <1>1 DEF NoticesInv, TimesNumbered, WaitTypes
<1>4. StoryInv'
  BY DEF NoticesInv, StoryInv, NoticesInOrder, TimeoutIsTold
<1>5. LastTold => LastTold'
  BY DEF LastTold, LastToldIn
<1>6. Unrefreshed => Unrefreshed'
  BY <1>1 DEF Unrefreshed
<1>7. QED BY <1>2, <1>3, <1>4, <1>5, <1>6 DEF NoticesInv

(* What becomes of the counted refreshes when the row moves.                 *)
CountsStay ==
    \/ run'.next = None \/ run'.seq = 0
    \/ /\ run'.gen = run.gen /\ run'.seq = run.seq
       /\ \/ run'.next = run.next /\ run'.deadline = run.deadline /\ (late => late')
          \/ run'.next > run.times /\ late'

LEMMA LastToldStays ==
    ASSUME NoticesInv, UNCHANGED <<log, sink, pass>>, CountsStay
    PROVE  LastTold' \/ Unrefreshed'
<1> USE DEF CountsStay
<1>1. CASE run'.next = None \/ run'.seq = 0
  BY <1>1 DEF Unrefreshed, LastTold
<1>2. CASE /\ run'.gen = run.gen /\ run'.seq = run.seq
           /\ run'.next = run.next /\ run'.deadline = run.deadline /\ (late => late')
  <2>1. LastTold => LastTold'
    BY <1>2 DEF LastTold, LastToldIn
  <2>2. Unrefreshed => Unrefreshed'
    BY <1>2 DEF Unrefreshed
  <2>3. QED BY <2>1, <2>2 DEF NoticesInv
<1>3. CASE run'.gen = run.gen /\ run'.seq = run.seq /\ run'.next > run.times /\ late'
  <2>1. \A p \in Passes : pass[p].due \in Nat /\ pass[p].due <= run.times
    BY DEF NoticesInv, WaitTypes, PassRow, TimesNumbered
  <2>2. run.times \in Nat
    BY DEF NoticesInv, WaitTypes, WaitRow
  <2>3. \A p \in Passes : pass'[p].due # run'.next
    BY <1>3, <2>1, <2>2
  <2>4. QED BY <1>3, <2>3 DEF Unrefreshed
<1>4. QED BY <1>1, <1>2, <1>3

RowShape ==
           /\ run \in WaitRow /\ DOMAIN run = {"st", "att", "open", "gen", "deadline", "next", "times",
                                                "sent", "seq", "cb"}
           /\ run.gen \in Nat /\ run.times \in Nat /\ run.next \in Nat /\ run.deadline \in Nat
           /\ run.seq \in Nat /\ run.att \in Nat /\ run.open \in BOOLEAN /\ run.sent \in BOOLEAN
           /\ run.st \in WaitStates /\ run.cb \in {"unknown", "enqueued", "unavailable"}
           /\ run.deadline <= run.times /\ run.next <= run.times

LEMMA RowFields == ASSUME NoticesInv PROVE RowShape
BY DEF RowShape, NoticesInv, WaitTypes, WaitRow, TimesNumbered

(* The new wait, or the wait that goes on.                                   *)
LEMMA ReopenedRow ==
    ASSUME NoticesInv, run' = Reopened(run)
    PROVE  /\ run' \in WaitRow /\ run'.times >= run.times /\ run'.st = "queued"
           /\ run'.deadline <= run'.times /\ run'.next <= run'.times
           /\ \/ run.open /\ run'.gen = run.gen /\ run'.seq = run.seq /\ run'.sent = run.sent
                 /\ run'.next = run.next /\ run'.deadline = run.deadline
              \/ ~run.open /\ run'.gen = run.gen + 1 /\ run'.seq = 0
<1>f. RowShape
  BY RowFields
<1>1. CASE run.open
  <2>1. run' = [run EXCEPT !.st = "queued"]
    BY <1>1 DEF Reopened
  <2>2. QED BY <1>f, <1>1, <2>1 DEF RowShape, WaitRow, WaitStates, Waiting
<1>2. CASE ~run.open
  <2>n. PICK g \in Nat, t \in Nat : g = run.gen + 1 /\ t = run.times + 1
    BY <1>f DEF RowShape
  <2>1. run' = [run EXCEPT !.st = "queued", !.open = TRUE, !.gen = g, !.deadline = t, !.next = t,
                                 !.times = t, !.sent = FALSE, !.seq = 0, !.cb = "unknown"]
    BY <1>2, <2>n DEF Reopened
  <2>2. run' \in WaitRow
    <3> DEFINE r == [run EXCEPT !.st = "queued", !.open = TRUE, !.gen = g, !.deadline = t, !.next = t]
    <3>1. r \in WaitRow
      BY <1>f, <2>n DEF RowShape, WaitRow, WaitStates, Waiting
    <3> DEFINE q == [r EXCEPT !.times = t, !.sent = FALSE]
    <3>2. run' = [q EXCEPT !.seq = 0, !.cb = "unknown"]
      BY <2>1
    <3> HIDE DEF r
    <3>3. q \in WaitRow
      BY <2>n, <3>1 DEF WaitRow
    <3> HIDE DEF q
    <3>4. /\ q.st \in WaitStates /\ q.att \in Nat /\ q.open \in BOOLEAN /\ q.gen \in Nat
          /\ q.deadline \in Nat /\ q.next \in Nat /\ q.times \in Nat /\ q.sent \in BOOLEAN
          /\ q = [st |-> q.st, att |-> q.att, open |-> q.open, gen |-> q.gen, deadline |-> q.deadline,
                 next |-> q.next, times |-> q.times, sent |-> q.sent, seq |-> q.seq, cb |-> q.cb]
      BY <3>3 DEF WaitRow
    <3>5. run' = [st |-> q.st, att |-> q.att, open |-> q.open, gen |-> q.gen, deadline |-> q.deadline,
                  next |-> q.next, times |-> q.times, sent |-> q.sent, seq |-> 0, cb |-> "unknown"]
      BY <3>2, <3>4
    <3>6. QED BY <3>4, <3>5 DEF WaitRow
  <2>3. /\ run'.st = "queued" /\ run'.gen = g /\ run'.deadline = t /\ run'.next = t
        /\ run'.times = t /\ run'.seq = 0
    BY <1>f, <2>1 DEF RowShape
  <2>4. QED BY <1>f, <1>2, <2>n, <2>2, <2>3 DEF RowShape
<1>3. QED BY <1>1, <1>2

LEMMA WaitSteps ==
    ASSUME NoticesInv,
           ClaimWaiting \/ InvokeRun \/ Requeue \/ Downgrade \/ NeedsInput \/ ResumeGranted \/ End
           \/ ForceDeadline
    PROVE  NoticesInv'
<1>f. RowShape
  BY RowFields
<1>0. run.st \in {"running", "needs_input"} => ~run.open
  BY DEF NoticesInv, WaitTypes
<1>1. CASE ClaimWaiting
  <2>n. PICK a \in Nat : a = run.att + 1
    BY <1>f DEF RowShape
  <2>0. run' = [run EXCEPT !.st = "claimed", !.att = a]
    BY <1>1, <2>n DEF ClaimWaiting
  <2>1. /\ run' \in WaitRow /\ run'.times = run.times /\ run'.deadline = run.deadline
        /\ run'.next = run.next /\ run'.gen = run.gen /\ run'.sent = run.sent /\ run'.seq = run.seq
        /\ run'.st = "claimed" /\ run.st = "queued"
    BY <1>f, <1>1, <2>0 DEF RowShape, ClaimWaiting, WaitRow, WaitStates, Waiting
  <2>2. UNCHANGED <<late, pass, telling, sink, log>>
    BY <1>1 DEF ClaimWaiting
  <2>3. WaitTypes' /\ TimesNumbered' /\ StoryInv'
    BY <1>f, <2>1, <2>2, WaitMoves DEF RowShape
  <2>c. late => late'
    BY <2>2
  <2>4. CountsStay
    BY <2>1, <2>c DEF CountsStay
  <2>5. QED BY <2>1, <2>2, <2>3, <2>4, LastToldStays DEF NoticesInv
<1>2. CASE InvokeRun \/ End
  <2>0. PICK st \in WaitStates : st \notin {"timed_out"} /\ run' = [run EXCEPT !.st = st, !.open = FALSE, !.next = 0]
    BY <1>2 DEF InvokeRun, End, Closed, None, WaitStates, Waiting
  <2>1. /\ run' \in WaitRow /\ run'.times = run.times /\ run'.deadline = run.deadline
        /\ run'.next = None /\ run'.gen = run.gen /\ run'.sent = run.sent /\ run'.seq = run.seq
        /\ run'.st # "timed_out" /\ run.st # "timed_out" /\ ~run'.open
    BY <1>f, <1>2, <2>0 DEF RowShape, InvokeRun, End, None, WaitRow, WaitStates, Waiting
  <2>2. /\ UNCHANGED <<pass, telling, sink, log>> /\ 0 <= run.times
    BY <1>f, <1>2 DEF RowShape, InvokeRun, End
  <2>3. run'.next <= run'.times
    BY <2>1, <2>2 DEF None
  <2>4. WaitTypes' /\ TimesNumbered' /\ StoryInv'
    BY <1>f, <2>1, <2>2, <2>3, WaitMoves DEF RowShape
  <2>5. CountsStay
    BY <2>1, <2>2 DEF CountsStay
  <2>6. QED BY <2>1, <2>2, <2>4, <2>5, LastToldStays DEF NoticesInv
<1>3. CASE Requeue \/ ResumeGranted
  <2>1. /\ run' = Reopened(run) /\ run.st # "timed_out" /\ UNCHANGED <<pass, sink, log>>
        /\ run.open => UNCHANGED late
        /\ telling' = telling \/ telling' = telling \cup {run'}
    BY <1>0, <1>3 DEF Requeue, ResumeGranted, Waiting
  <2>2. /\ run' \in WaitRow /\ run'.times >= run.times /\ run'.st = "queued"
        /\ run'.deadline <= run'.times /\ run'.next <= run'.times
        /\ \/ run.open /\ run'.gen = run.gen /\ run'.seq = run.seq /\ run'.sent = run.sent
              /\ run'.next = run.next /\ run'.deadline = run.deadline
           \/ ~run.open /\ run'.gen = run.gen + 1 /\ run'.seq = 0
    BY <2>1, ReopenedRow
  <2>3. WaitTypes' /\ TimesNumbered' /\ StoryInv'
    BY <1>f, <2>1, <2>2, WaitMoves DEF RowShape
  <2>c. run.open => (late => late')
    BY <2>1
  <2>4. CountsStay
    BY <2>2, <2>c DEF CountsStay
  <2>5. QED BY <2>1, <2>2, <2>3, <2>4, LastToldStays DEF NoticesInv
<1>4. CASE Downgrade
  <2>n. PICK g \in Nat, t \in Nat : g = run.gen + 1 /\ t = run.times + 1
    BY <1>f DEF RowShape
  <2>0. run' = [run EXCEPT !.st = "queued", !.open = TRUE, !.gen = g, !.deadline = t, !.times = t,
                           !.next = 0]
    BY <1>4, <2>n DEF Downgrade, Downgraded, None
  <2>r. run' \in WaitRow
    BY <1>f, <2>n, <2>0 DEF RowShape, WaitRow, WaitStates, Waiting
  <2>s. /\ run'.st = "queued" /\ run'.gen = g /\ run'.deadline = t /\ run'.next = 0 /\ run'.times = t
    BY <1>f, <2>0 DEF RowShape
  <2>1. /\ run' \in WaitRow /\ run'.times = run.times + 1 /\ run'.deadline = run'.times
        /\ run'.next = None /\ run'.gen = run.gen + 1
        /\ run'.st = "queued" /\ run.st # "timed_out"
    BY <1>4, <2>n, <2>r, <2>s DEF Downgrade, None
  <2>2. run'.next <= run'.times /\ UNCHANGED <<pass, telling, sink, log>>
    BY <1>4, <1>f, <2>1 DEF None, Downgrade, RowShape
  <2>3. WaitTypes' /\ TimesNumbered' /\ StoryInv'
    BY <1>f, <2>1, <2>2, WaitMoves DEF RowShape
  <2>4. CountsStay
    BY <2>1, <2>2 DEF CountsStay
  <2>5. QED BY <2>1, <2>2, <2>3, <2>4, LastToldStays DEF NoticesInv
<1>5. CASE NeedsInput
  <2>1. /\ run' \in WaitRow /\ run'.times = run.times /\ run'.deadline = run.deadline
        /\ run'.next = run.next /\ run'.gen = run.gen /\ run'.sent = run.sent /\ run'.seq = run.seq
        /\ run'.st = "needs_input" /\ run.st = "running" /\ run'.open = run.open
    BY <1>f, <1>5 DEF RowShape, NeedsInput, WaitRow, WaitStates, Waiting
  <2>2. UNCHANGED <<late, pass, telling, sink, log>>
    BY <1>5 DEF NeedsInput
  <2>3. WaitTypes' /\ TimesNumbered' /\ StoryInv'
    BY <1>0, <1>f, <2>1, <2>2, WaitMoves DEF RowShape
  <2>c. late => late'
    BY <2>2
  <2>4. CountsStay
    BY <2>1, <2>c DEF CountsStay
  <2>5. QED BY <2>1, <2>2, <2>3, <2>4, LastToldStays DEF NoticesInv
<1>6. CASE ForceDeadline
  <2>n. PICK t \in Nat : t = run.times + 1
    BY <1>f DEF RowShape
  <2>0. run' = [run EXCEPT !.deadline = t, !.next = t, !.times = t]
    BY <1>6, <2>n DEF ForceDeadline
  <2>1. /\ run' \in WaitRow /\ run'.times = run.times + 1 /\ run'.deadline = run'.times
        /\ run'.next = run'.times /\ run'.gen = run.gen /\ run'.sent = run.sent /\ run'.seq = run.seq
        /\ run'.st = "claimed" /\ run.st # "timed_out"
    BY <1>f, <1>6, <2>n, <2>0 DEF RowShape, ForceDeadline, WaitRow, WaitStates, Waiting
  <2>2. UNCHANGED <<pass, telling, sink, log>> /\ late'
    BY <1>6 DEF ForceDeadline
  <2>3. WaitTypes' /\ TimesNumbered' /\ StoryInv'
    BY <1>f, <2>1, <2>2, WaitMoves DEF RowShape
  <2>4. run'.next > run.times
    BY <1>f, <2>1 DEF RowShape
  <2>5. CountsStay
    BY <1>f, <2>1, <2>2, <2>4 DEF CountsStay
  <2>6. QED BY <2>1, <2>2, <2>3, <2>5, LastToldStays DEF NoticesInv
<1>7. QED BY <1>1, <1>2, <1>3, <1>4, <1>5, <1>6

(* The clock, and the passes while they only read.                           *)
LEMMA ClockSteps ==
    ASSUME NoticesInv, DeadlinePasses \/ RefreshComes
    PROVE  NoticesInv'
<1>1. UNCHANGED <<run, pass, telling, sink, log>> /\ (late => late')
  BY DEF DeadlinePasses, RefreshComes
<1>2. WaitTypes' /\ TimesNumbered' /\ StoryInv' /\ (LastTold => LastTold') /\ (Unrefreshed => Unrefreshed')
  BY <1>1 DEF NoticesInv, WaitTypes, TimesNumbered, StoryInv, NoticesInOrder, TimeoutIsTold, LastTold,
              LastToldIn, Unrefreshed
<1>3. QED BY <1>2 DEF NoticesInv

LEMMA PassFields ==
    ASSUME NoticesInv, NEW p \in Passes
    PROVE  /\ pass[p] \in PassRow /\ DOMAIN pass[p] = {"pc", "late", "due", "row"}
           /\ pass[p].late \in Nat /\ pass[p].due \in Nat
           /\ pass[p].late <= run.times /\ pass[p].due <= run.times
           /\ IdlePass \in PassRow /\ IdlePass.pc = "idle"
           /\ IdlePass.late <= run.times /\ IdlePass.due <= run.times
<1>1. pass[p] \in PassRow
  BY DEF NoticesInv, WaitTypes
<1>2. run.times \in Nat
  BY RowFields DEF RowShape
<1>3. QED BY <1>1, <1>2 DEF PassRow, IdlePass, None, NoticesInv, TimesNumbered

LEMMA ReadingSteps ==
    ASSUME NoticesInv, NEW p \in Passes,
           BeginPass(p) \/ ReadTimeout(p) \/ ReadStatus(p) \/ Dies(p)
    PROVE  NoticesInv'
<1> USE RowFields, PassFields DEF RowShape
<1>1. CASE BeginPass(p)
  <2> DEFINE new == [pc |-> "timeouts", late |-> IF late THEN run.deadline ELSE None,
                     due |-> IF due THEN run.next ELSE None, row |-> NoRow]
  <2>1. /\ new \in PassRow /\ new.pc = "timeouts" /\ new.late <= run.times /\ new.due <= run.times
        /\ late => new.late = run.deadline
    BY DEF PassRow, None
  <2>2. pass' = [pass EXCEPT ![p] = new] /\ UNCHANGED <<run, late, log, sink, telling>>
    BY <1>1 DEF BeginPass
  <2> HIDE DEF new
  <2>3. QED BY <2>1, <2>2, PassMoves
<1>2. ASSUME NEW pc \in {"expire", "refresh"}, ReadRow(p, pc), pass[p].pc # "idle",
             UNCHANGED <<run, late, log, sink, telling>>,
             pc = "refresh" => run.next = pass[p].due /\ run.next # None /\ run.deadline # pass[p].late
      PROVE  NoticesInv'
  <2> DEFINE new == [pass[p] EXCEPT !.pc = pc, !.row = run]
  <2>1. /\ new \in PassRow /\ new.pc = pc /\ new.late = pass[p].late /\ new.due = pass[p].due
        /\ new.row = run
    BY DEF PassRow
  <2>2. pass' = [pass EXCEPT ![p] = new]
    BY <1>2 DEF ReadRow
  <2> HIDE DEF new
  <2>3. QED BY <1>2, <2>1, <2>2, PassMoves
<1>3. ASSUME Go(p, "status"), pass[p].pc # "idle", UNCHANGED <<run, late, log, sink, telling>>
      PROVE  NoticesInv'
  <2> DEFINE new == [pass[p] EXCEPT !.pc = "status", !.row = NoRow]
  <2>1. /\ new \in PassRow /\ new.pc = "status" /\ new.late = pass[p].late /\ new.due = pass[p].due
    BY DEF PassRow
  <2>2. pass' = [pass EXCEPT ![p] = new]
    BY <1>3 DEF Go
  <2> HIDE DEF new
  <2>3. QED BY <1>3, <2>1, <2>2, PassMoves
<1>4. ASSUME Abort(p), UNCHANGED <<run, late, log, sink, telling>>
      PROVE  NoticesInv'
  <2>1. pass' = [pass EXCEPT ![p] = IdlePass]
    BY <1>4 DEF Abort
  <2>2. QED BY <1>4, <2>1, PassMoves
<1>5. CASE ReadTimeout(p)
  <2>1. pass[p].pc # "idle" /\ UNCHANGED <<run, late, log, sink, telling>>
    BY <1>5 DEF ReadTimeout, PassAt
  <2>2. ReadRow(p, "expire") \/ Go(p, "status")
    BY <1>5 DEF ReadTimeout
  <2>3. QED BY <1>2, <1>3, <2>1, <2>2
<1>6. CASE ReadStatus(p)
  <2>1. pass[p].pc # "idle" /\ UNCHANGED <<run, late, log, sink, telling>>
    BY <1>6 DEF ReadStatus, PassAt
  <2>2. \/ /\ ReadRow(p, "refresh")
           /\ run.next = pass[p].due /\ run.next # None /\ run.deadline # pass[p].late
        \/ Abort(p)
    BY <1>6 DEF ReadStatus, PastDeadline
  <2>3. QED BY <1>2, <1>4, <2>1, <2>2
<1>7. CASE Dies(p)
  BY <1>4, <1>7 DEF Dies
<1>8. QED BY <1>1, <1>5, <1>6, <1>7

(* The steps that tell.                                                      *)
LEMMA ToldStays ==
    ASSUME NoticesInv, LastTold, NEW n, log' = IF sink THEN Append(log, n) ELSE log, UNCHANGED sink,
           run'.gen = run.gen, run'.seq = run.seq
    PROVE  LastTold'
<1>1. SUFFICES ASSUME sink, run.seq # 0 PROVE LastToldIn'
  BY DEF LastTold
<1>2. PICK i \in DOMAIN log : log[i].kind = "refresh" /\ log[i].gen = run.gen /\ log[i].seq = run.seq
  BY <1>1 DEF LastTold, LastToldIn
<1>3. log \in Seq(Notice)
  BY DEF NoticesInv, WaitTypes
<1>4. i \in DOMAIN log' /\ log'[i] = log[i]
  BY <1>1, <1>2, <1>3
<1>5. QED BY <1>2, <1>4 DEF LastToldIn

LEMMA AnnounceKept == ASSUME NoticesInv, AnnounceWait PROVE NoticesInv'
<1> USE RowFields DEF RowShape
<1>0. PICK row \in telling :
        /\ IF SameWait(row) /\ ~run.sent /\ ~late /\ Composed(row)
           THEN run' = [run EXCEPT !.sent = TRUE, !.cb = Mark] /\ log' = Entered("transition", row.gen, 0)
           ELSE UNCHANGED <<run, log>>
        /\ telling' = telling \ {row}
        /\ UNCHANGED <<late, due, pass, sink>>
  BY DEF AnnounceWait
<1>1. telling' \subseteq WaitRow /\ UNCHANGED <<late, due, pass, sink>> /\ row \in WaitRow
  BY <1>0 DEF NoticesInv, WaitTypes
<1>2. CASE UNCHANGED <<run, log>>
  BY <1>1, <1>2 DEF NoticesInv, WaitTypes, TimesNumbered, StoryInv, NoticesInOrder, TimeoutIsTold,
                    LastTold, LastToldIn, Unrefreshed
<1>3. CASE /\ SameWait(row) /\ ~run.sent
           /\ run' = [run EXCEPT !.sent = TRUE, !.cb = Mark] /\ log' = Entered("transition", row.gen, 0)
  <2> DEFINE n == [kind |-> "transition", gen |-> run.gen, seq |-> 0]
  <2>1. n \in Notice /\ n.kind = "transition" /\ n.gen = run.gen
    BY DEF Notice
  <2>2. log' = IF sink THEN Append(log, n) ELSE log
    BY <1>3 DEF Entered, SameWait
  <2>3. /\ run' \in WaitRow /\ run'.gen = run.gen /\ run'.seq = run.seq /\ run'.sent /\ run'.st = run.st
        /\ run'.times = run.times /\ run'.deadline = run.deadline /\ run'.next = run.next
        /\ run'.open = run.open
    BY <1>3 DEF WaitRow, Mark
  <2>4. run.st # "timed_out" /\ ~run.sent
    BY <1>3 DEF SameWait, Waiting
  <2> HIDE DEF n
  <2>5. StoryInv' /\ log' \in Seq(Notice)
    BY <1>1, <2>1, <2>2, <2>3, <2>4, StoryGoesOn
  <2>6. WaitTypes' /\ TimesNumbered'
    BY <1>1, <2>3, <2>5 DEF NoticesInv, WaitTypes, TimesNumbered
  <2>7. LastTold => LastTold'
    BY <1>1, <2>2, <2>3, ToldStays
  <2>8. Unrefreshed => Unrefreshed'
    BY <1>1, <2>3 DEF Unrefreshed
  <2>9. QED BY <2>5, <2>6, <2>7, <2>8 DEF NoticesInv
<1>4. QED BY <1>0, <1>2, <1>3

LEMMA TimeoutKept ==
    ASSUME NoticesInv, NEW p \in Passes, SameWait(pass[p].row), TimedOut,
           UNCHANGED <<late, due, telling, sink>>, pass' = pass \/ Go(p, "status")
    PROVE  NoticesInv'
<1> USE RowFields, PassFields DEF RowShape
<1> DEFINE n == [kind |-> "timeout", gen |-> run.gen, seq |-> 0]
<1>1. n \in Notice /\ n.kind = "timeout" /\ n.gen = run.gen
  BY DEF Notice
<1>2. log' = IF sink THEN Append(log, n) ELSE log
  BY DEF TimedOut, Entered
<1>3. /\ run' \in WaitRow /\ run'.gen = run.gen /\ run'.seq = run.seq /\ run'.sent = run.sent
      /\ run'.st = "timed_out" /\ run'.times = run.times /\ run'.deadline = run.deadline
      /\ run'.next = None /\ ~run'.open
  BY DEF WaitRow, WaitStates, Mark, TimedOut, Closed, None
<1>4. run.st # "timed_out"
  BY DEF SameWait, Waiting
<1> HIDE DEF n
<1>5. StoryInv' /\ log' \in Seq(Notice)
  BY <1>1, <1>2, <1>3, <1>4, StoryGoesOn
<1>6. /\ pass' \in [Passes -> PassRow]
      /\ \A q \in Passes : pass'[q] = pass[q] \/ (q = p /\ pass'[q].pc = "status"
                                                   /\ pass'[q].late = pass[q].late /\ pass'[q].due = pass[q].due)
  <2>1. CASE pass' = pass
    BY <2>1 DEF NoticesInv, WaitTypes
  <2>2. CASE Go(p, "status")
    <3> DEFINE new == [pass[p] EXCEPT !.pc = "status", !.row = NoRow]
    <3>1. /\ new \in PassRow /\ new.pc = "status" /\ new.late = pass[p].late /\ new.due = pass[p].due
      BY DEF PassRow
    <3>2. pass' = [pass EXCEPT ![p] = new]
      BY <2>2 DEF Go
    <3> HIDE DEF new
    <3>3. QED BY <3>1, <3>2 DEF NoticesInv, WaitTypes
  <2>3. QED BY <2>1, <2>2
<1>7. WaitTypes'
  BY <1>3, <1>5, <1>6 DEF NoticesInv, WaitTypes
<1>8. TimesNumbered'
  BY <1>3, <1>6 DEF NoticesInv, TimesNumbered, None
<1>9. Unrefreshed'
  BY <1>3 DEF Unrefreshed
<1>10. QED BY <1>5, <1>7, <1>8, <1>9 DEF NoticesInv

LEMMA RefreshKept == ASSUME NoticesInv, NEW p \in Passes, Refresh(p) PROVE NoticesInv'
<1> USE RowFields, PassFields DEF RowShape
<1>1. pass' = [pass EXCEPT ![p] = IdlePass] /\ UNCHANGED <<late, telling, sink>> /\ pass[p].pc = "refresh"
  BY DEF Refresh, Abort, PassAt
<1>2. CASE UNCHANGED <<run, log>>
  BY <1>1, <1>2, PassMoves
<1>3. CASE /\ pass[p].row.seq = run.seq /\ Refreshable(p)
           /\ run' = [run EXCEPT !.next = run.times + 1, !.times = @ + 1, !.seq = @ + 1, !.cb = Mark]
           /\ log' = Entered("refresh", pass[p].row.gen, pass[p].row.seq + 1)
  <2> DEFINE n == [kind |-> "refresh", gen |-> run.gen, seq |-> run.seq + 1]
  <2>1. n \in Notice /\ n.kind = "refresh" /\ n.gen = run.gen /\ n.seq = run.seq + 1
    BY DEF Notice
  <2>2. log' = IF sink THEN Append(log, n) ELSE log
    BY <1>3 DEF Entered, Refreshable, SameWait
  <2>n. PICK k \in Nat, t \in Nat, c \in {"enqueued", "unavailable"} :
           k = run.seq + 1 /\ t = run.times + 1 /\ c = Mark
    BY DEF Mark
  <2>0. run' = [run EXCEPT !.next = t, !.times = t, !.seq = k, !.cb = c]
    BY <1>3, <2>n
  <2>3. /\ run' \in WaitRow /\ run'.gen = run.gen /\ run'.seq = run.seq + 1 /\ run'.sent = run.sent
        /\ run'.st = run.st /\ run'.times = run.times + 1 /\ run'.deadline = run.deadline
        /\ run'.next = run'.times /\ run'.open = run.open
    BY <2>n, <2>0 DEF WaitRow
  <2>4. run.st # "timed_out"
    BY <1>3 DEF Refreshable, SameWait, Waiting
  <2>5. LastTold
    <3>1. run.next = pass[p].due /\ run.next # None /\ run.deadline # pass[p].late
      BY <1>1, <1>3 DEF Refreshable, SameWait, NoticesInv, TimesNumbered
    <3>2. ~Unrefreshed
      BY <1>1, <3>1 DEF Unrefreshed
    <3>3. QED BY <3>2 DEF NoticesInv
  <2> HIDE DEF n
  <2>6. StoryInv' /\ log' \in Seq(Notice) /\ LastTold'
    BY <1>1, <2>1, <2>2, <2>3, <2>4, <2>5, StoryGoesOn
  <2>7. /\ pass' \in [Passes -> PassRow] /\ pass'[p] = IdlePass
        /\ \A q \in Passes : q # p => pass'[q] = pass[q]
    BY <1>1 DEF NoticesInv, WaitTypes
  <2>8. WaitTypes'
    BY <1>1, <2>3, <2>6, <2>7 DEF NoticesInv, WaitTypes
  <2>9. TimesNumbered'
    <3>1. run'.deadline <= run'.times /\ run'.next <= run'.times
      BY <2>3
    <3>2. ASSUME NEW q \in Passes
          PROVE  /\ pass'[q].late <= run'.times /\ pass'[q].due <= run'.times
                 /\ pass'[q].pc = "refresh" => /\ pass'[q].row.next = pass'[q].due /\ pass'[q].row.next # None
                                               /\ pass'[q].row.deadline # pass'[q].late
      <4>1. CASE q = p
        <5>1. run'.times \in Nat
          BY <2>3
        <5>2. QED BY <2>7, <4>1, <5>1 DEF IdlePass, None
      <4>2. CASE q # p
        <5>1. pass'[q] = pass[q] /\ pass[q].late \in Nat /\ pass[q].due \in Nat
          BY <2>7, <4>2, PassFields
        <5>2. /\ pass[q].late <= run.times /\ pass[q].due <= run.times
              /\ pass[q].pc = "refresh" => /\ pass[q].row.next = pass[q].due /\ pass[q].row.next # None
                                           /\ pass[q].row.deadline # pass[q].late
          BY DEF NoticesInv, TimesNumbered
        <5>3. run.times \in Nat /\ run'.times = run.times + 1
          BY <2>3
        <5>4. QED BY <5>1, <5>2, <5>3
      <4>3. QED BY <4>1, <4>2
    <3>3. QED BY <3>1, <3>2 DEF TimesNumbered
  <2>10. QED BY <2>6, <2>8, <2>9 DEF NoticesInv
<1>4. QED BY <1>2, <1>3 DEF Refresh

LEMMA NoticesKept == ASSUME NoticesInv, [QueueNext]_queueVars PROVE NoticesInv'
<1>1. CASE UNCHANGED queueVars
  BY <1>1 DEF queueVars, NoticesInv, WaitTypes, TimesNumbered, StoryInv, NoticesInOrder, TimeoutIsTold,
              LastTold, LastToldIn, Unrefreshed
<1>2. ASSUME NEW p \in Passes, Expire(p) \/ Refresh(p) \/ RaceTimeout(p) PROVE NoticesInv'
  <2>1. CASE Expire(p)
    <3>1. CASE /\ SameWait(pass[p].row) /\ TimedOut /\ Go(p, "status")
               /\ UNCHANGED <<late, due, telling, sink>>
      BY <3>1, TimeoutKept
    <3>2. CASE Go(p, "status") /\ UNCHANGED <<run, late, due, telling, sink, log>>
      <4>1. pass[p].pc # "idle"
        BY <2>1 DEF Expire, PassAt
      <4> DEFINE new == [pass[p] EXCEPT !.pc = "status", !.row = NoRow]
      <4>2. /\ new \in PassRow /\ new.pc = "status" /\ new.late = pass[p].late /\ new.due = pass[p].due
        BY PassFields DEF PassRow
      <4>3. pass' = [pass EXCEPT ![p] = new] /\ pass[p].late <= run.times /\ pass[p].due <= run.times
        BY <3>2, PassFields DEF Go
      <4> HIDE DEF new
      <4>4. QED BY <3>2, <4>1, <4>2, <4>3, PassMoves
    <3>3. CASE Abort(p) /\ UNCHANGED <<run, late, due, telling, sink, log>>
      BY <3>3, PassFields, PassMoves DEF Abort
    <3>4. QED BY <2>1, <3>1, <3>2, <3>3 DEF Expire
  <2>2. CASE Refresh(p)
    BY <2>2, RefreshKept
  <2>3. CASE RaceTimeout(p)
    BY <2>3, TimeoutKept DEF RaceTimeout
  <2>4. QED BY <1>2, <2>1, <2>2, <2>3
<1>3. QED BY <1>1, <1>2, WaitSteps, ClockSteps, ReadingSteps, AnnounceKept DEF QueueNext, PassSteps

(* What a user is told of a waiting run is one story in its order, and ends with the timeout exactly
   if the run timed out, whatever the processors, the users and the passes of any number of
   service processes do in between. *)
THEOREM NoticesTellOneStory == QueueSpec => []NoticesTrue
<1>1. QueueInit => NoticesInv
  BY NoticesStart
<1>2. NoticesInv /\ [QueueNext]_queueVars => NoticesInv'
  BY NoticesKept
<1>3. NoticesInv => NoticesTrue
  BY DEF NoticesInv, StoryInv, NoticesTrue
<1>4. QED BY <1>1, <1>2, <1>3, PTL DEF QueueSpec
=============================================================================
