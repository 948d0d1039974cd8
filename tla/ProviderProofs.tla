--------------------------- MODULE ProviderProofs ---------------------------
(***************************************************************************)
(* The parts that serve requests.                                          *)
(*                                                                         *)
(* ProviderRequests: neither observers that saw the same failure, nor a    *)
(* crash in the start of a fallback, nor a Stop let two native runs work   *)
(* for one request, and a Stop is final.                                   *)
(*                                                                         *)
(* ProviderAccounts: while heartbeats are in time, the lease of an account *)
(* keeps its home to one container, and a mission is given to a harness    *)
(* once.                                                                   *)
(*                                                                         *)
(* ActiveWork: the action of a key takes effect once, whoever loses or     *)
(* takes over its receipt, what a receipt answers is true of the ledger,   *)
(* and a stopped worker has nothing left to do.                            *)
(***************************************************************************)
EXTENDS ProviderRequests, ProviderAccounts, ActiveWork, FiniteSetTheorems, WellFoundedInduction, TLAPS

\* A run that may still author: it is live, or waits for a grant.
Working(q, n) == nat[q][n] \in Live \cup {"needs_input"}

\* The request row and its runs: at most one works; until a fallback is claimed it is the run
\* that the request names, and when it is claimed there is none.
AuthorInv(q) ==
    /\ \A m, n \in RunIds : Working(q, m) /\ Working(q, n) => m = n
    /\ req[q].fb = "none" => /\ fbk[q].pc = "none"
                         /\ \A n \in RunIds : Working(q, n) => n = req[q].run
    /\ fbk[q].pc = "claimed" => \A n \in RunIds : ~Working(q, n)

\* A request without a run has never had one, and nobody is about to synchronise it.
FreshInv(q) ==
    /\ req[q].st = "none" => req[q].run = 0
    /\ req[q].run = 0 => /\ fbk[q].pc = "none"
                         /\ sy.pc # "idle" => sy.q # q
                         /\ \A n \in RunIds : nat[q][n] = "none"
    /\ fbk[q].pc = "assigned" => fbk[q].run # 0
    /\ req[q].st = "completed" => req[q].run # 0 /\ nat[q][req[q].run] = "completed"

\* What a synchronisation read of a run that has ended stays true.
SyncInv ==
    /\ sy.pc # "idle" => sy.q \in Requests /\ sy.run \in RunIds
    /\ sy.pc = "commit" /\ sy.saw \in {"completed", "quota"} => nat[sy.q][sy.run] = sy.saw

\* A request that is being attached is new: no restart has seen it.
AttachInv ==
    /\ cl.pc = "attach" => /\ cl.q \in Requests \ resumed
                           /\ req[cl.q].st = "open" /\ req[cl.q].run = 0
    /\ \A q \in resumed : req[q].st # "none"
    /\ det # NoRequest => det \in resumed

\* A Stop waits for one thread, which synchronises its request or starts a fallback for it.
AwaitedSync == sy.pc # "idle" /\ sy.by = "cancel"
AwaitedStart(q) == fbk[q].pc # "none" /\ fbk[q].by = "cancel"
StopInv ==
    /\ cl.pc \in {"syncing", "act", "kill"} => cl.q \in Requests
    /\ AwaitedSync => cl.pc = "syncing" /\ cl.q = sy.q
    /\ \A q \in Requests : AwaitedStart(q) => cl.pc = "syncing" /\ cl.q = q /\ ~AwaitedSync

ProviderInv ==
    /\ ProviderTypeOK
    /\ \A q \in Requests : AuthorInv(q) /\ FreshInv(q)
    /\ SyncInv /\ AttachInv /\ StopInv

-----------------------------------------------------------------------------
\* The types, one variable at a time.

ReqRow == [st : Terminal \cup {"none", "open"}, run : {0} \cup RunIds,
           fb : {"none", "claimed", "started", "failed"}, acc : BOOLEAN]
NatStates == Live \cup Ended \cup {"none", "needs_input"}

ReqTyped == req \in [Requests -> ReqRow]
RunsTyped == nat \in [Requests -> [RunIds -> NatStates]]
CallTyped == cl \in CallRow
SyncTyped == sy \in SyncRow
StartersTyped == fbk \in [Requests -> StarterRow]
RestTyped ==
    /\ advanced \subseteq {Turn[q] : q \in Requests}
    /\ stopped \subseteq Families
    /\ det \in Requests \cup {NoRequest}
    /\ resumed \subseteq Requests
    /\ faults \in 0 .. MaxFaults

LEMMA Types ==
    ProviderTypeOK <=> /\ ReqTyped /\ RunsTyped /\ CallTyped /\ SyncTyped
                       /\ StartersTyped /\ RestTyped
BY DEF ProviderTypeOK, ReqTyped, ReqRow, RunsTyped, NatStates, CallTyped, SyncTyped,
       StartersTyped, RestTyped

LEMMA TypesAfter ==
    ASSUME ReqTyped', RunsTyped', CallTyped', SyncTyped', StartersTyped', RestTyped'
    PROVE  ProviderTypeOK'
BY DEF ProviderTypeOK, ReqTyped, ReqRow, RunsTyped, NatStates, CallTyped, SyncTyped,
       StartersTyped, RestTyped

LEMMA FirstRun == 1 \in RunIds
BY ProviderAssumption DEF RunIds

\* A request row, a run and a starter that are replaced by typed ones.
LEMMA ReqSet ==
    ASSUME ReqTyped, NEW q, NEW row, q \in Requests => row \in ReqRow,
           req' = [req EXCEPT ![q] = row]
    PROVE  ReqTyped'
BY DEF ReqTyped

LEMMA RunSet ==
    ASSUME RunsTyped, NEW q, NEW n, NEW s \in NatStates,
           nat' = [nat EXCEPT ![q][n] = s]
    PROVE  RunsTyped'
BY DEF RunsTyped

LEMMA StarterSet ==
    ASSUME StartersTyped, NEW q \in Requests, NEW row \in StarterRow,
           fbk' = [fbk EXCEPT ![q] = row]
    PROVE  StartersTyped'
BY DEF StartersTyped

LEMMA RowsTyped ==
    ASSUME ReqTyped, StartersTyped, RunsTyped, NEW q \in Requests
    PROVE  /\ req[q] \in ReqRow
           /\ req[q].st \in Terminal \cup {"none", "open"}
           /\ req[q].run \in {0} \cup RunIds
           /\ fbk[q] \in StarterRow
           /\ fbk[q].run \in {0} \cup RunIds
           /\ fbk[q].by \in {"observer", "cancel"}
           /\ \A n \in RunIds : nat[q][n] \in NatStates
BY DEF ReqTyped, ReqRow, StartersTyped, StarterRow, RunsTyped

LEMMA ReqRows ==
    ASSUME NEW row \in ReqRow
    PROVE  /\ \A s \in Terminal \cup {"open"} : [row EXCEPT !.st = s] \in ReqRow
           /\ \A n \in {0} \cup RunIds : [row EXCEPT !.run = n] \in ReqRow
           /\ \A f \in {"claimed", "started", "failed"} : [row EXCEPT !.fb = f] \in ReqRow
           /\ [row EXCEPT !.acc = TRUE] \in ReqRow
BY DEF ReqRow

LEMMA States ==
    /\ Live \cup Ended \cup {"none", "needs_input"} = NatStates
    /\ {"queued", "claimed", "running", "needs_input", "cancelled", "failed"}
           \subseteq NatStates
BY DEF NatStates, Live, Ended

LEMMA FreeRows == FreeCall \in CallRow /\ FreeSync \in SyncRow /\ NoStarter \in StarterRow
BY DEF FreeCall, CallRow, FreeSync, SyncRow, NoStarter, StarterRow, Terminal, Ended, RunIds

\* What a Stop is told of the row of its request.
LEMMA ResumeTyped ==
    ASSUME CallTyped, NEW by, NEW row \in ReqRow, Resume(by, row)
    PROVE  CallTyped'
BY DEF CallTyped, CallRow, ReqRow, Resume

\* A retired run is cancelled or what it was.
LEMMA RetireTyped ==
    ASSUME RunsTyped, NEW q \in Requests, NEW n, Retire(q, n)
    PROVE  RunsTyped'
BY RunSet, States DEF Retire, RunsTyped

-----------------------------------------------------------------------------
\* What a step leaves as it is.

\* How a run ended stays, as far as a request is settled by it.
EndsStay ==
    \A q \in Requests, n \in RunIds :
        nat[q][n] \in {"completed", "quota"} => nat'[q][n] = nat[q][n]

LEMMA RunChanges ==
    ASSUME RunsTyped, NEW q \in Requests, NEW n \in RunIds, NEW s,
           nat[q][n] \notin {"completed", "quota"}, nat' = [nat EXCEPT ![q][n] = s]
    PROVE  EndsStay
BY DEF RunsTyped, EndsStay

LEMMA RunsSame == ASSUME UNCHANGED nat PROVE EndsStay
BY DEF EndsStay

LEMMA SyncFrame == ASSUME SyncInv, UNCHANGED sy, EndsStay PROVE SyncInv'
BY DEF SyncInv, EndsStay

LEMMA AttachFrame ==
    ASSUME AttachInv, UNCHANGED <<det, resumed>>,
           cl'.pc = "attach" => cl.pc = "attach" /\ cl'.q = cl.q /\ req'[cl.q] = req[cl.q],
           \A q \in resumed : req'[q].st = "none" => req[q].st = "none"
    PROVE  AttachInv'
BY DEF AttachInv

LEMMA StopFrame == ASSUME StopInv, UNCHANGED <<cl, sy, fbk>> PROVE StopInv'
BY DEF StopInv, AwaitedSync, AwaitedStart

\* A Stop that is told of a row goes on with it.
LEMMA Resumes ==
    ASSUME CallTyped, NEW by, NEW row, Resume(by, row)
    PROVE  /\ cl'.q = cl.q
           /\ cl'.pc = IF by = "cancel" THEN "act" ELSE cl.pc
BY DEF CallTyped, CallRow, Resume

-----------------------------------------------------------------------------
(* Every step keeps the invariant. *)

LEMMA CreateKeeps ==
    ASSUME ProviderInv, NEW q \in Requests, Create(q)
    PROVE  ProviderInv'
<1>0. Create(q) /\ ProviderTypeOK /\ SyncInv /\ AttachInv /\ StopInv BY DEF ProviderInv
<1>r. ASSUME NEW p \in Requests PROVE AuthorInv(p) /\ FreshInv(p) BY DEF ProviderInv
<1>1. ProviderTypeOK'
  <2>1. ReqTyped'
    <3> PICK row : row = [req[q] EXCEPT !.st = "open"] OBVIOUS
    <3>1. row \in ReqRow BY <1>0, Types, RowsTyped, ReqRows
    <3> QED BY <1>0, <3>1, Types, ReqSet DEF Create
  <2>2. CallTyped' BY <1>0, Types DEF Create, CallTyped, CallRow, FreeCall
  <2> QED
    BY <1>0, <2>1, <2>2, Types, TypesAfter
       DEF Create, RunsTyped, SyncTyped, StartersTyped, RestTyped
<1>2. ASSUME NEW p \in Requests PROVE AuthorInv(p)'
  BY <1>0, <1>r DEF Create, AuthorInv, Working
<1>3. ASSUME NEW p \in Requests PROVE FreshInv(p)'
  BY <1>0, <1>r DEF Create, FreshInv
<1>4. SyncInv'
  BY <1>0, SyncFrame, RunsSame DEF Create
<1>5. AttachInv'
  BY <1>0, <1>r
     DEF Create, AttachInv, FreshInv, ProviderTypeOK, CallRow, SyncRow, FreeCall,
         Terminal
<1>6. StopInv'
  BY <1>0 DEF Create, StopInv, AwaitedSync, AwaitedStart, FreeCall
<1> QED BY <1>1, <1>2, <1>3, <1>4, <1>5, <1>6 DEF ProviderInv

LEMMA AttachKeeps ==
    ASSUME ProviderInv, Attach
    PROVE  ProviderInv'
<1>0. Attach /\ ProviderTypeOK /\ SyncInv /\ AttachInv /\ StopInv BY DEF ProviderInv
<1>r. ASSUME NEW p \in Requests PROVE AuthorInv(p) /\ FreshInv(p) BY DEF ProviderInv
<1>1. ProviderTypeOK'
  <2>1. ReqTyped'
    <3> PICK row : row = [req[cl.q] EXCEPT !.run = 1] OBVIOUS
    <3>1. req[cl.q] \in ReqRow BY <1>0, Types, RowsTyped DEF Attach, AttachInv
    <3>2. row \in ReqRow BY <3>1, FirstRun, ReqRows
    <3> QED BY <1>0, <3>2, Types, ReqSet DEF Attach
  <2>2. RunsTyped' BY <1>0, Types, RunSet, States DEF Attach
  <2> QED
    BY <1>0, <2>1, <2>2, Types, TypesAfter, FreeRows
       DEF Attach, CallTyped, SyncTyped, StartersTyped, RestTyped
<1>2. ASSUME NEW p \in Requests PROVE AuthorInv(p)'
  BY <1>0, <1>r
     DEF Attach, AuthorInv, FreshInv, AttachInv, SyncInv, Working, ProviderTypeOK, Live, Ended
<1>3. ASSUME NEW p \in Requests PROVE FreshInv(p)'
  BY <1>0, <1>r DEF Attach, FreshInv, ProviderTypeOK
<1>4. SyncInv'
  <2>1. req[cl.q].run = 0 /\ cl.q \in Requests BY <1>0 DEF Attach, AttachInv
  <2>2. nat[cl.q][1] = "none" BY <1>r, <2>1, FirstRun DEF FreshInv
  <2>3. RunsTyped /\ nat' = [nat EXCEPT ![cl.q][1] = "queued"] BY <1>0, Types DEF Attach
  <2>4. EndsStay BY <2>1, <2>2, <2>3, FirstRun, RunChanges
  <2> QED BY <1>0, <2>4, SyncFrame DEF Attach
<1>5. AttachInv'
  BY <1>0 DEF Attach, AttachInv, FreeCall
<1>6. StopInv'
  BY <1>0 DEF Attach, StopInv, AwaitedSync, AwaitedStart, FreeCall
<1> QED BY <1>1, <1>2, <1>3, <1>4, <1>5, <1>6 DEF ProviderInv

LEMMA StartFailsKeeps ==
    ASSUME ProviderInv, NEW attached \in BOOLEAN, StartFails(attached)
    PROVE  ProviderInv'
<1>0. StartFails(attached) /\ ProviderTypeOK /\ SyncInv /\ AttachInv /\ StopInv
  BY DEF ProviderInv
<1>r. ASSUME NEW p \in Requests PROVE AuthorInv(p) /\ FreshInv(p) BY DEF ProviderInv
<1>1. ProviderTypeOK'
  <2>1. ReqTyped'
    <3> PICK row : row = [[req[cl.q] EXCEPT !.st = "failed"]
                              EXCEPT !.run = IF attached THEN 1 ELSE req[cl.q].run]
      OBVIOUS
    <3>1. [req[cl.q] EXCEPT !.st = "failed"] \in ReqRow
      BY <1>0, Types, RowsTyped, ReqRows DEF StartFails, AttachInv, Terminal
    <3>2. (IF attached THEN 1 ELSE req[cl.q].run) \in {0} \cup RunIds
      BY <1>0, Types, RowsTyped, FirstRun DEF StartFails, AttachInv
    <3>3. row \in ReqRow BY <3>1, <3>2, ReqRows
    <3>4. req' = [req EXCEPT ![cl.q] = row]
      BY <1>0, Types DEF StartFails, AttachInv, ReqTyped, ReqRow
    <3> QED BY <1>0, <3>3, <3>4, Types, ReqSet
  <2>2. RunsTyped' BY <1>0, Types, RunSet, States DEF StartFails, RunsTyped
  <2> QED
    BY <1>0, <2>1, <2>2, Types, TypesAfter, FreeRows, ProviderAssumption
       DEF StartFails, CallTyped, SyncTyped, StartersTyped, RestTyped
<1>2. ASSUME NEW p \in Requests PROVE AuthorInv(p)'
  BY <1>0, <1>r
     DEF StartFails, AuthorInv, FreshInv, AttachInv, SyncInv, Working, ProviderTypeOK, Live,
         Ended
<1>3. ASSUME NEW p \in Requests PROVE FreshInv(p)'
  BY <1>0, <1>r DEF StartFails, FreshInv, ProviderTypeOK
<1>4. SyncInv'
  <2>1. req[cl.q].run = 0 /\ cl.q \in Requests BY <1>0 DEF StartFails, AttachInv
  <2>2. nat[cl.q][1] = "none" BY <1>r, <2>1, FirstRun DEF FreshInv
  <2>3. EndsStay BY <1>0, <2>1, <2>2, FirstRun, Types, RunChanges, RunsSame DEF StartFails
  <2> QED BY <1>0, <2>3, SyncFrame DEF StartFails
<1>5. AttachInv'
  BY <1>0 DEF StartFails, AttachInv, ProviderTypeOK, CallRow, FreeCall, Terminal
<1>6. StopInv'
  BY <1>0 DEF StartFails, StopInv, AwaitedSync, AwaitedStart, FreeCall
<1> QED BY <1>1, <1>2, <1>3, <1>4, <1>5, <1>6 DEF ProviderInv

LEMMA ReopenKeeps ==
    ASSUME ProviderInv, NEW q \in Requests, Reopen(q)
    PROVE  ProviderInv'
<1>0. Reopen(q) /\ ProviderTypeOK /\ SyncInv /\ AttachInv /\ StopInv BY DEF ProviderInv
<1>r. ASSUME NEW p \in Requests PROVE AuthorInv(p) /\ FreshInv(p) BY DEF ProviderInv
<1>1. ProviderTypeOK'
  <2>1. ReqTyped'
    <3> PICK row : row = [req[q] EXCEPT !.st = "open"] OBVIOUS
    <3>1. row \in ReqRow BY <1>0, Types, RowsTyped, ReqRows
    <3> QED BY <1>0, <3>1, Types, ReqSet DEF Reopen
  <2>2. RunsTyped'
    <3>1. "queued" \in NatStates BY States
    <3>2. PICK n : n = req[q].run OBVIOUS
    <3>3. RunsTyped /\ nat' = [nat EXCEPT ![q][n] = "queued"] BY <1>0, <3>2, Types DEF Reopen
    <3> QED BY <3>1, <3>3, RunSet
  <2> QED
    BY <1>0, <2>1, <2>2, Types, TypesAfter, ProviderAssumption
       DEF Reopen, CallTyped, SyncTyped, StartersTyped, RestTyped
<1>2. ASSUME NEW p \in Requests PROVE AuthorInv(p)'
  BY <1>0, <1>r DEF Reopen, AuthorInv, Working
<1>3. ASSUME NEW p \in Requests PROVE FreshInv(p)'
  BY <1>0, <1>r DEF Reopen, FreshInv
<1>4. SyncInv'
  BY <1>0 DEF Reopen, SyncInv, FreeSync
<1>5. AttachInv'
  BY <1>0, AttachFrame DEF Reopen
<1>6. StopInv'
  BY <1>0, StopFrame DEF Reopen
<1> QED BY <1>1, <1>2, <1>3, <1>4, <1>5, <1>6 DEF ProviderInv

LEMMA RunStepKeeps ==
    ASSUME ProviderInv, NEW q \in Requests, NEW n \in RunIds, RunStep(q, n)
    PROVE  ProviderInv'
<1>0. RunStep(q, n) /\ ProviderTypeOK /\ SyncInv /\ AttachInv /\ StopInv BY DEF ProviderInv
<1>r. ASSUME NEW p \in Requests PROVE AuthorInv(p) /\ FreshInv(p) BY DEF ProviderInv
<1>1. ProviderTypeOK'
  <2>1. RunsTyped' BY <1>0, Types, RunSet, States DEF RunStep
  <2> QED
    BY <1>0, <2>1, Types, TypesAfter
       DEF RunStep, ReqTyped, CallTyped, SyncTyped, StartersTyped, RestTyped
<1>2. ASSUME NEW p \in Requests PROVE AuthorInv(p)'
  <2>1. \A m \in RunIds : Working(p, m)' => Working(p, m)
    BY <1>0, Types DEF RunStep, Working, RunsTyped, Live, Ended
  <2>2. UNCHANGED <<req, fbk>> BY <1>0 DEF RunStep
  <2> QED BY <1>r, <2>1, <2>2 DEF AuthorInv
<1>3. ASSUME NEW p \in Requests PROVE FreshInv(p)'
  <2>1. EndsStay BY <1>0, Types, RunChanges DEF RunStep
  <2>2. nat[q][n] # "none" /\ \A m \in RunIds : nat[p][m] = "none" => nat'[p][m] = "none"
    BY <1>0, Types DEF RunStep, RunsTyped
  <2>3. UNCHANGED <<req, sy, fbk>> BY <1>0 DEF RunStep
  <2>4. req[p].run \in {0} \cup RunIds BY <1>0, Types, RowsTyped
  <2> QED BY <1>r, <2>1, <2>2, <2>3, <2>4 DEF FreshInv, EndsStay
<1>4. SyncInv'
  <2>1. EndsStay BY <1>0, Types, RunChanges DEF RunStep
  <2> QED BY <1>0, <2>1, SyncFrame DEF RunStep
<1>5. AttachInv'
  BY <1>0, AttachFrame DEF RunStep
<1>6. StopInv'
  BY <1>0, StopFrame DEF RunStep
<1> QED BY <1>1, <1>2, <1>3, <1>4, <1>5, <1>6 DEF ProviderInv

LEMMA ObserveKeeps ==
    ASSUME ProviderInv, NEW q \in Requests, Observe(q)
    PROVE  ProviderInv'
<1>0. Observe(q) /\ ProviderTypeOK /\ SyncInv /\ AttachInv /\ StopInv BY DEF ProviderInv
<1>r. ASSUME NEW p \in Requests PROVE AuthorInv(p) /\ FreshInv(p) BY DEF ProviderInv
<1>1. ProviderTypeOK'
  <2>1. RunsTyped' BY <1>0, Types, RunSet, States DEF Observe, SyncRead, RunsTyped
  <2>2. SyncTyped' BY <1>0, Types, RowsTyped DEF Observe, Unsynced, SyncRead, SyncTyped, SyncRow
  <2> QED
    BY <1>0, <2>1, <2>2, Types, TypesAfter
       DEF Observe, ReqTyped, CallTyped, StartersTyped, RestTyped
<1>2. ASSUME NEW p \in Requests PROVE AuthorInv(p)'
  BY <1>0, <1>r DEF Observe, Unsynced, SyncRead, AuthorInv, Working, ProviderTypeOK, Live, Ended
<1>3. ASSUME NEW p \in Requests PROVE FreshInv(p)'
  BY <1>0, <1>r DEF Observe, Unsynced, SyncRead, FreshInv
<1>4. SyncInv'
  BY <1>0 DEF Observe, Unsynced, SyncRead, SyncInv, ProviderTypeOK
<1>5. AttachInv'
  BY <1>0, AttachFrame DEF Observe, Unsynced, SyncRead
<1>6. StopInv'
  BY <1>0 DEF Observe, Unsynced, SyncRead, StopInv, AwaitedSync, AwaitedStart, FreeCall
<1> QED BY <1>1, <1>2, <1>3, <1>4, <1>5, <1>6 DEF ProviderInv

LEMMA ClaimFallbackKeeps ==
    ASSUME ProviderInv, ClaimFallback
    PROVE  ProviderInv'
<1>0. ClaimFallback /\ ProviderTypeOK /\ SyncInv /\ AttachInv /\ StopInv BY DEF ProviderInv
<1>r. ASSUME NEW p \in Requests PROVE AuthorInv(p) /\ FreshInv(p) BY DEF ProviderInv
<1>1. ProviderTypeOK'
  <2>1. sy.q \in Requests /\ sy.run \in RunIds BY <1>0 DEF ClaimFallback, SyncInv
  <2>2. ReqTyped'
    <3> PICK row : row = [req[sy.q] EXCEPT !.fb = "claimed"] OBVIOUS
    <3>1. row \in ReqRow BY <1>0, <2>1, Types, RowsTyped, ReqRows
    <3> QED BY <1>0, <3>1, Types, ReqSet DEF ClaimFallback, ReqTyped
  <2>3. CallTyped' BY <1>0, <2>1, Types, RowsTyped, ResumeTyped DEF ClaimFallback, CallTyped
  <2>4. StartersTyped'
    <3> PICK row : row = [pc |-> "claimed", from |-> sy.run, run |-> 0, by |-> sy.by] OBVIOUS
    <3>1. row \in StarterRow BY <1>0, <2>1, Types DEF SyncTyped, SyncRow, StarterRow
    <3> QED BY <1>0, <2>1, <3>1, Types, StarterSet DEF ClaimFallback, StartersTyped
  <2> QED
    BY <1>0, <2>2, <2>3, <2>4, Types, TypesAfter, FreeRows
       DEF ClaimFallback, RunsTyped, SyncTyped, RestTyped
<1>2. ASSUME NEW p \in Requests PROVE AuthorInv(p)'
  BY <1>0, <1>r
     DEF ClaimFallback, Eligible, CommitFits, Resume, AuthorInv, FreshInv, AttachInv, SyncInv,
         Working, ProviderTypeOK, Live, Ended
<1>3. ASSUME NEW p \in Requests PROVE FreshInv(p)'
  BY <1>0, <1>r
     DEF ClaimFallback, Eligible, CommitFits, Resume, FreshInv, SyncInv, ProviderTypeOK,
         SyncRow, FreeSync, Live, Ended
<1>4. SyncInv'
  BY <1>0 DEF ClaimFallback, Eligible, CommitFits, Resume, SyncInv, FreeSync
<1>5. AttachInv'
  <2>1. sy.q \in Requests /\ sy.pc = "commit" BY <1>0 DEF ClaimFallback, SyncInv
  <2>2. \A q \in Requests : req'[q].st = req[q].st
    BY <1>0, Types DEF ClaimFallback, ReqTyped, ReqRow
  <2>3. (UNCHANGED cl) \/ Resume(sy.by, req[sy.q]) BY <1>0 DEF ClaimFallback
  <2>4. cl'.pc = "attach" => cl.pc = "attach" /\ cl'.q = cl.q
    BY <1>0, <2>1, <2>3, Types, RowsTyped, Resumes
  <2>5. cl.pc = "attach" => cl.q \in Requests /\ req[cl.q].run = 0
    BY <1>0 DEF AttachInv
  <2>6. cl.pc = "attach" => cl.q # sy.q BY <1>r, <2>1, <2>5 DEF FreshInv
  <2>7. cl'.pc = "attach" => req'[cl.q] = req[cl.q]
    BY <1>0, <2>4, <2>5, <2>6, Types DEF ClaimFallback, ReqTyped
  <2>8. UNCHANGED <<det, resumed>> /\ resumed \subseteq Requests
    BY <1>0, Types DEF ClaimFallback, RestTyped
  <2> QED BY <1>0, <2>2, <2>4, <2>7, <2>8, AttachFrame
<1>6. StopInv'
  <2>1. /\ sy.q \in Requests /\ sy.pc = "commit"
        /\ sy.by \in {"observer", "cancel"} /\ sy' = FreeSync
    BY <1>0, Types DEF ClaimFallback, SyncInv, SyncTyped, SyncRow
  <2>2. ~AwaitedSync' BY <2>1 DEF AwaitedSync, FreeSync
  <2>3. CASE CommitFits(sy.q, sy.run)
    <3>1. UNCHANGED cl BY <1>0, <2>3 DEF ClaimFallback
    <3>2. fbk' = [fbk EXCEPT ![sy.q] =
                 [pc |-> "claimed", from |-> sy.run, run |-> 0, by |-> sy.by]]
      BY <1>0, <2>3 DEF ClaimFallback
    <3>3. \A q \in Requests : AwaitedStart(q)' => AwaitedStart(q) \/ (q = sy.q /\ AwaitedSync)
      BY <1>0, <2>1, <3>2, Types DEF StartersTyped, AwaitedStart, AwaitedSync
    <3> QED BY <1>0, <2>2, <3>1, <3>3 DEF StopInv
  <2>4. CASE ~CommitFits(sy.q, sy.run)
    <3>1. UNCHANGED fbk /\ Resume(sy.by, req[sy.q]) BY <1>0, <2>4 DEF ClaimFallback
    <3>2. cl'.q = cl.q /\ cl'.pc = IF sy.by = "cancel" THEN "act" ELSE cl.pc
      BY <1>0, <3>1, Types, Resumes
    <3>3. \A q \in Requests : AwaitedStart(q)' <=> AwaitedStart(q) BY <3>1 DEF AwaitedStart
    <3> QED BY <1>0, <2>1, <2>2, <3>2, <3>3 DEF StopInv, AwaitedSync
  <2> QED BY <2>3, <2>4
<1> QED BY <1>1, <1>2, <1>3, <1>4, <1>5, <1>6 DEF ProviderInv

LEMMA CommitKeeps ==
    ASSUME ProviderInv, Commit
    PROVE  ProviderInv'
<1>0. Commit /\ ProviderTypeOK /\ SyncInv /\ AttachInv /\ StopInv BY DEF ProviderInv
<1>r. ASSUME NEW p \in Requests PROVE AuthorInv(p) /\ FreshInv(p) BY DEF ProviderInv
<1>1. ProviderTypeOK'
  <2>1. sy.q \in Requests BY <1>0 DEF Commit, SyncInv
  <2> PICK row : row = IF CommitFits(sy.q, sy.run)
                      THEN [req[sy.q] EXCEPT !.st = FinalState(sy.saw)]
                      ELSE req[sy.q]
    OBVIOUS
  <2>2. FinalState(sy.saw) \in Terminal BY DEF FinalState, Terminal
  <2>3. row \in ReqRow BY <1>0, <2>1, <2>2, Types, RowsTyped, ReqRows
  <2>4. req' = [req EXCEPT ![sy.q] = row] BY <1>0 DEF Commit
  <2>5. ReqTyped' BY <1>0, <2>3, <2>4, Types, ReqSet
  <2>6. (UNCHANGED cl) \/ Resume(sy.by, row) BY <1>0 DEF Commit
  <2>7. CallTyped' BY <1>0, <2>3, <2>6, Types, ResumeTyped DEF CallTyped
  <2>8. SyncTyped' BY <1>0, Types, FreeRows DEF Commit, SyncTyped, SyncRow
  <2> QED
    BY <1>0, <2>5, <2>7, <2>8, Types, TypesAfter DEF Commit, RunsTyped, StartersTyped, RestTyped
<1>2. ASSUME NEW p \in Requests PROVE AuthorInv(p)'
  BY <1>0, <1>r DEF Commit, CommitFits, Eligible, Resume, FinalState, AuthorInv, Working
<1>3. ASSUME NEW p \in Requests PROVE FreshInv(p)'
  BY <1>0, <1>r
     DEF Commit, CommitFits, Eligible, Resume, FinalState, FreshInv, SyncInv, ProviderTypeOK,
         SyncRow, FreeSync, Live, Ended
<1>4. SyncInv'
  <2>1. sy.pc = "commit" /\ EndsStay /\ (sy' = [sy EXCEPT !.pc = "advance"] \/ sy' = FreeSync)
    BY <1>0, RunsSame DEF Commit
  <2>2. sy'.pc # "commit" /\ (sy'.pc # "idle" => sy'.q = sy.q /\ sy'.run = sy.run)
    BY <1>0, <2>1, Types DEF SyncTyped, SyncRow, FreeSync
  <2> QED BY <1>0, <2>1, <2>2 DEF SyncInv
<1>5. AttachInv'
  <2> PICK row : row = IF CommitFits(sy.q, sy.run)
                      THEN [req[sy.q] EXCEPT !.st = FinalState(sy.saw)]
                      ELSE req[sy.q]
    OBVIOUS
  <2>1. sy.q \in Requests /\ sy.pc = "commit" BY <1>0 DEF Commit, SyncInv
  <2>2. req' = [req EXCEPT ![sy.q] = row] /\ ((UNCHANGED cl) \/ Resume(sy.by, row))
    BY <1>0 DEF Commit
  <2>3. row.st = "none" => req[sy.q].st = "none"
    BY <1>0, <2>1, Types, RowsTyped DEF FinalState, ReqRow
  <2>4. \A q \in Requests : req'[q].st = "none" => req[q].st = "none"
    BY <1>0, <2>2, <2>3, Types DEF ReqTyped
  <2>5. cl'.pc = "attach" => cl.pc = "attach" /\ cl'.q = cl.q BY <1>0, <2>2, Types, Resumes
  <2>6. cl.pc = "attach" => cl.q \in Requests /\ req[cl.q].run = 0 BY <1>0 DEF AttachInv
  <2>7. cl.pc = "attach" => cl.q # sy.q BY <1>r, <2>1, <2>6 DEF FreshInv
  <2>8. cl'.pc = "attach" => req'[cl.q] = req[cl.q]
    BY <1>0, <2>2, <2>5, <2>6, <2>7, Types DEF ReqTyped
  <2>9. UNCHANGED <<det, resumed>> /\ resumed \subseteq Requests
    BY <1>0, Types DEF Commit, RestTyped
  <2> QED BY <1>0, <2>4, <2>5, <2>8, <2>9, AttachFrame
<1>6. StopInv'
  <2> PICK row : row = IF CommitFits(sy.q, sy.run)
                      THEN [req[sy.q] EXCEPT !.st = FinalState(sy.saw)]
                      ELSE req[sy.q]
    OBVIOUS
  <2>1. sy.pc = "commit" /\ \A q \in Requests : AwaitedStart(q)' <=> AwaitedStart(q)
    BY <1>0 DEF Commit, AwaitedStart
  <2>2. CASE row.st = "completed"
    <3>1. UNCHANGED cl /\ sy' = [sy EXCEPT !.pc = "advance"] BY <1>0, <2>2 DEF Commit
    <3>2. sy'.q = sy.q /\ sy'.by = sy.by BY <1>0, <3>1, Types DEF SyncTyped, SyncRow
    <3> QED BY <1>0, <2>1, <3>1, <3>2 DEF StopInv, AwaitedSync
  <2>3. CASE row.st # "completed"
    <3>1. sy' = FreeSync /\ Resume(sy.by, row) BY <1>0, <2>3 DEF Commit
    <3>2. cl'.q = cl.q /\ cl'.pc = IF sy.by = "cancel" THEN "act" ELSE cl.pc
      BY <1>0, <3>1, Types, Resumes
    <3>3. ~AwaitedSync' BY <3>1 DEF AwaitedSync, FreeSync
    <3>4. sy.by \in {"observer", "cancel"} BY <1>0, Types DEF SyncTyped, SyncRow
    <3> QED BY <1>0, <2>1, <3>2, <3>3, <3>4 DEF StopInv, AwaitedSync
  <2> QED BY <2>2, <2>3
<1> QED BY <1>1, <1>2, <1>3, <1>4, <1>5, <1>6 DEF ProviderInv

LEMMA AdvanceKeeps ==
    ASSUME ProviderInv, Advance
    PROVE  ProviderInv'
<1>0. Advance /\ ProviderTypeOK /\ SyncInv /\ AttachInv /\ StopInv BY DEF ProviderInv
<1>r. ASSUME NEW p \in Requests PROVE AuthorInv(p) /\ FreshInv(p) BY DEF ProviderInv
<1>1. ProviderTypeOK'
  <2>1. sy.q \in Requests BY <1>0 DEF Advance, SyncInv
  <2> PICK row : row = IF req[sy.q].st = "completed"
                      THEN [req[sy.q] EXCEPT !.acc = TRUE]
                      ELSE req[sy.q]
    OBVIOUS
  <2>3. row \in ReqRow BY <1>0, <2>1, Types, RowsTyped, ReqRows
  <2>4. req' = [req EXCEPT ![sy.q] = row] /\ Resume(sy.by, row) BY <1>0 DEF Advance
  <2>5. ReqTyped' BY <1>0, <2>3, <2>4, Types, ReqSet
  <2>7. CallTyped' BY <1>0, <2>3, <2>4, Types, ResumeTyped
  <2>8. RestTyped' BY <1>0, <2>1, Types DEF Advance, Advancement, RestTyped
  <2> QED
    BY <1>0, <2>5, <2>7, <2>8, Types, TypesAfter, FreeRows
       DEF Advance, RunsTyped, StartersTyped, SyncTyped
<1>2. ASSUME NEW p \in Requests PROVE AuthorInv(p)'
  BY <1>0, <1>r DEF Advance, Advancement, Resume, AuthorInv, Working
<1>3. ASSUME NEW p \in Requests PROVE FreshInv(p)'
  BY <1>0, <1>r
     DEF Advance, Advancement, Resume, FreshInv, SyncInv, ProviderTypeOK, SyncRow, FreeSync,
         Live, Ended
<1>4. SyncInv'
  BY <1>0 DEF Advance, Advancement, Resume, SyncInv, FreeSync
<1>5. AttachInv'
  BY <1>0 DEF Advance, Advancement, Resume, AttachInv, FreeCall
<1>6. StopInv'
  BY <1>0
     DEF Advance, Advancement, Resume, StopInv, SyncInv, AwaitedSync, AwaitedStart,
         ProviderTypeOK, CallRow, FreeCall, FreeSync, NoStarter, StarterRow
<1> QED BY <1>1, <1>2, <1>3, <1>4, <1>5, <1>6 DEF ProviderInv

LEMMA AssignFallbackKeeps ==
    ASSUME ProviderInv, NEW q \in Requests, AssignFallback(q)
    PROVE  ProviderInv'
<1>0. AssignFallback(q) /\ ProviderTypeOK /\ SyncInv /\ AttachInv /\ StopInv BY DEF ProviderInv
<1>r. ASSUME NEW p \in Requests PROVE AuthorInv(p) /\ FreshInv(p) BY DEF ProviderInv
<1>1. ProviderTypeOK'
  <2>1. PICK n \in RunIds : /\ nat' = [nat EXCEPT ![q][n] = "queued"]
                            /\ fbk' = [fbk EXCEPT ![q].pc = "assigned", ![q].run = n]
    BY <1>0 DEF AssignFallback
  <2>2. RunsTyped' BY <1>0, <2>1, Types, RunSet, States
  <2>3. StartersTyped'
    <3> PICK row : row = [[fbk[q] EXCEPT !.pc = "assigned"] EXCEPT !.run = n] OBVIOUS
    <3>1. row \in StarterRow BY <1>0, Types, RowsTyped DEF StarterRow
    <3>2. fbk' = [fbk EXCEPT ![q] = row] BY <1>0, <2>1, Types DEF StartersTyped, StarterRow
    <3> QED BY <1>0, <3>1, <3>2, Types, StarterSet
  <2> QED
    BY <1>0, <2>2, <2>3, Types, TypesAfter
       DEF AssignFallback, ReqTyped, CallTyped, SyncTyped, RestTyped
<1>2. ASSUME NEW p \in Requests PROVE AuthorInv(p)'
  BY <1>0, <1>r DEF AssignFallback, AuthorInv, Working, ProviderTypeOK, Live, Ended
<1>3. ASSUME NEW p \in Requests PROVE FreshInv(p)'
  BY <1>0, <1>r
     DEF AssignFallback, FreshInv, ProviderTypeOK, StarterRow, NoStarter, RunIds, Live, Ended
<1>4. SyncInv'
  BY <1>0 DEF AssignFallback, SyncInv, FreeSync
<1>5. AttachInv'
  BY <1>0, AttachFrame DEF AssignFallback
<1>6. StopInv'
  BY <1>0
     DEF AssignFallback, StopInv, AwaitedSync, AwaitedStart, ProviderTypeOK, CallRow, FreeCall
<1> QED BY <1>1, <1>2, <1>3, <1>4, <1>5, <1>6 DEF ProviderInv

LEMMA StartFallbackKeeps ==
    ASSUME ProviderInv, NEW q \in Requests, StartFallback(q)
    PROVE  ProviderInv'
<1>0. StartFallback(q) /\ ProviderTypeOK /\ SyncInv /\ AttachInv /\ StopInv BY DEF ProviderInv
<1>r. ASSUME NEW p \in Requests PROVE AuthorInv(p) /\ FreshInv(p) BY DEF ProviderInv
<1>1. ProviderTypeOK'
  <2> PICK row : row = IF StartFits(q)
                      THEN [req[q] EXCEPT !.fb = "started", !.run = fbk[q].run]
                      ELSE req[q]
    OBVIOUS
  <2>1. row \in ReqRow BY <1>0, Types, RowsTyped DEF ReqRow
  <2>2. req' = [req EXCEPT ![q] = row] /\ Resume(fbk[q].by, row) BY <1>0 DEF StartFallback
  <2>3. ReqTyped' BY <1>0, <2>1, <2>2, Types, ReqSet
  <2>4. CallTyped' BY <1>0, <2>1, <2>2, Types, ResumeTyped
  <2>5. RunsTyped' BY <1>0, Types, RetireTyped DEF StartFallback, RunsTyped
  <2>6. StartersTyped' BY <1>0, Types, StarterSet, FreeRows DEF StartFallback
  <2> QED
    BY <1>0, <2>3, <2>4, <2>5, <2>6, Types, TypesAfter DEF StartFallback, SyncTyped, RestTyped
<1>2. ASSUME NEW p \in Requests PROVE AuthorInv(p)'
  <2>1. \A m \in RunIds : Working(p, m)' => Working(p, m)
    BY <1>0, Types DEF StartFallback, Retire, Working, RunsTyped, Live
  <2>2. CASE p = q
    <3>1. fbk'[q].pc = "none" BY <1>0, Types DEF StartFallback, StartersTyped, NoStarter
    <3>2. req'[q].fb # "none"
      BY <1>0, <1>r, Types, RowsTyped DEF StartFallback, StartFits, AuthorInv, ReqTyped, ReqRow
    <3> QED BY <1>r, <2>1, <2>2, <3>1, <3>2 DEF AuthorInv
  <2>3. CASE p # q
    <3>1. req'[p] = req[p] /\ fbk'[p] = fbk[p]
      BY <1>0, <2>3, Types DEF StartFallback, ReqTyped, StartersTyped
    <3> QED BY <1>r, <2>1, <3>1 DEF AuthorInv
  <2> QED BY <2>2, <2>3
<1>3. ASSUME NEW p \in Requests PROVE FreshInv(p)'
  <2>1. EndsStay /\ \A m \in RunIds : nat[p][m] = "none" => nat'[p][m] = "none"
    BY <1>0, Types DEF StartFallback, Retire, EndsStay, RunsTyped, Live
  <2>2. UNCHANGED sy BY <1>0 DEF StartFallback
  <2>3. req[q].run # 0 BY <1>0, <1>r DEF StartFallback, FreshInv
  <2>4. CASE StartFits(q) /\ p = q
    <3>1. req'[q].st = "open"
      BY <1>0, <2>4, Types DEF StartFallback, StartFits, ReqTyped, ReqRow
    <3>2. req'[q].run = fbk[q].run BY <1>0, <2>4, Types DEF StartFallback, ReqTyped, ReqRow
    <3>3. fbk[q].run # 0 BY <1>0, <1>r DEF StartFallback, FreshInv
    <3>4. fbk'[q].pc = "none" BY <1>0, Types DEF StartFallback, StartersTyped, NoStarter
    <3> QED BY <2>4, <3>1, <3>2, <3>3, <3>4 DEF FreshInv
  <2>5. CASE ~(StartFits(q) /\ p = q)
    <3>1. req'[p] = req[p] BY <1>0, <2>5, Types DEF StartFallback, ReqTyped
    <3>2. req[p].run = 0 => fbk'[p].pc = "none"
      BY <1>0, <1>r, Types DEF StartFallback, StartersTyped, NoStarter, FreshInv
    <3>3. req[p].run \in {0} \cup RunIds BY <1>0, Types, RowsTyped
    <3>4. fbk'[p].pc = "none" \/ fbk'[p] = fbk[p]
      BY <1>0, Types DEF StartFallback, StartersTyped, NoStarter
    <3> QED BY <1>r, <2>1, <2>2, <3>1, <3>2, <3>3, <3>4 DEF FreshInv, EndsStay
  <2> QED BY <2>4, <2>5
<1>4. SyncInv'
  <2>1. EndsStay BY <1>0, Types DEF StartFallback, Retire, EndsStay, RunsTyped, Live
  <2> QED BY <1>0, <2>1, SyncFrame DEF StartFallback
<1>5. AttachInv'
  BY <1>0, <1>r
     DEF StartFallback, StartFits, Retire, Resume, AttachInv, FreshInv, ProviderTypeOK, CallRow,
         SyncRow, FreeCall, Terminal
<1>6. StopInv'
  BY <1>0
     DEF StartFallback, StartFits, Retire, Resume, StopInv, SyncInv, AwaitedSync, AwaitedStart,
         ProviderTypeOK, CallRow, FreeCall, FreeSync, NoStarter, StarterRow
<1> QED BY <1>1, <1>2, <1>3, <1>4, <1>5, <1>6 DEF ProviderInv

LEMMA FallbackFailsKeeps ==
    ASSUME ProviderInv, NEW q \in Requests, FallbackFails(q)
    PROVE  ProviderInv'
<1>0. FallbackFails(q) /\ ProviderTypeOK /\ SyncInv /\ AttachInv /\ StopInv BY DEF ProviderInv
<1>r. ASSUME NEW p \in Requests PROVE AuthorInv(p) /\ FreshInv(p) BY DEF ProviderInv
<1>1. ProviderTypeOK'
  <2> PICK row : row = IF req[q].st = "open"
                      THEN [req[q] EXCEPT !.st = "failed", !.fb = "failed"]
                      ELSE req[q]
    OBVIOUS
  <2>1. row \in ReqRow BY <1>0, Types, RowsTyped DEF ReqRow, Terminal
  <2>2. req' = [req EXCEPT ![q] = row] /\ Resume(fbk[q].by, row) BY <1>0 DEF FallbackFails
  <2>3. ReqTyped' BY <1>0, <2>1, <2>2, Types, ReqSet
  <2>4. CallTyped' BY <1>0, <2>1, <2>2, Types, ResumeTyped
  <2>5. RunsTyped'
    <3>1. Retire(q, fbk[q].run) \/ UNCHANGED nat BY <1>0 DEF FallbackFails
    <3>2. CASE UNCHANGED nat BY <1>0, <3>2, Types DEF RunsTyped
    <3> QED BY <1>0, <3>1, <3>2, Types, RetireTyped
  <2>6. StartersTyped' BY <1>0, Types, StarterSet, FreeRows DEF FallbackFails
  <2> QED
    BY <1>0, <2>3, <2>4, <2>5, <2>6, Types, TypesAfter, ProviderAssumption
       DEF FallbackFails, SyncTyped, RestTyped
<1>2. ASSUME NEW p \in Requests PROVE AuthorInv(p)'
  <2>1. \A m \in RunIds : Working(p, m)' => Working(p, m)
    BY <1>0, Types DEF FallbackFails, Retire, Working, RunsTyped, Live
  <2>2. CASE p = q
    <3>1. fbk'[q].pc = "none" BY <1>0, Types DEF FallbackFails, StartersTyped, NoStarter
    <3>2. req'[q].fb # "none"
      BY <1>0, <1>r, Types, RowsTyped DEF FallbackFails, AuthorInv, ReqTyped, ReqRow
    <3> QED BY <1>r, <2>1, <2>2, <3>1, <3>2 DEF AuthorInv
  <2>3. CASE p # q
    <3>1. req'[p] = req[p] /\ fbk'[p] = fbk[p]
      BY <1>0, <2>3, Types DEF FallbackFails, ReqTyped, StartersTyped
    <3> QED BY <1>r, <2>1, <3>1 DEF AuthorInv
  <2> QED BY <2>2, <2>3
<1>n. ASSUME NEW p \in Requests, NEW m \in RunIds
      PROVE  nat'[p][m] = nat[p][m] \/ (nat[p][m] \in Live \cup {"needs_input"} /\ nat'[p][m] = "cancelled")
  BY <1>0, Types DEF FallbackFails, Retire, RunsTyped
<1>3. ASSUME NEW p \in Requests PROVE FreshInv(p)'
  <2>1. \A m \in RunIds : /\ nat[p][m] = "none" => nat'[p][m] = "none"
                          /\ nat[p][m] = "completed" => nat'[p][m] = "completed"
    BY <1>n DEF Live
  <2>2. UNCHANGED sy /\ req[p].run \in {0} \cup RunIds
    BY <1>0, Types, RowsTyped DEF FallbackFails
  <2>3. /\ req'[p].run = req[p].run
        /\ req'[p].st = "none" => req[p].st = "none"
        /\ req'[p].st = "completed" => req[p].st = "completed"
    BY <1>0, Types DEF FallbackFails, ReqTyped, ReqRow
  <2>4. fbk'[p] = fbk[p] \/ fbk'[p].pc = "none"
    BY <1>0, Types DEF FallbackFails, StartersTyped, NoStarter
  <2>5. FreshInv(p) BY <1>r
  <2>6. req'[p].st = "completed" => req'[p].run # 0 /\ nat'[p][req'[p].run] = "completed"
    <3>1. SUFFICES ASSUME req'[p].st = "completed"
                   PROVE  req[p].run # 0 /\ nat'[p][req[p].run] = "completed"
      BY <2>3
    <3>2. req[p].run # 0 /\ nat[p][req[p].run] = "completed" BY <2>3, <2>5, <3>1 DEF FreshInv
    <3> QED BY <2>1, <2>2, <3>2
  <2>7. req'[p].run = 0 => \A m \in RunIds : nat'[p][m] = "none"
    BY <2>1, <2>3, <2>5 DEF FreshInv
  <2>8. /\ req'[p].st = "none" => req'[p].run = 0
        /\ req'[p].run = 0 => fbk'[p].pc = "none" /\ (sy'.pc # "idle" => sy'.q # p)
        /\ fbk'[p].pc = "assigned" => fbk'[p].run # 0
    BY <2>2, <2>3, <2>4, <2>5 DEF FreshInv
  <2> QED BY <2>6, <2>7, <2>8, Zenon DEF FreshInv
<1>4. SyncInv'
  <2>1. UNCHANGED sy BY <1>0 DEF FallbackFails
  <2>2. sy.pc # "idle" => \/ nat'[sy.q][sy.run] = nat[sy.q][sy.run]
                          \/ nat[sy.q][sy.run] \in Live \cup {"needs_input"}
    BY <1>0, <1>n DEF SyncInv
  <2> QED BY <1>0, <2>1, <2>2 DEF SyncInv, Live
<1>5. AttachInv'
  BY <1>0, <1>r
     DEF FallbackFails, Retire, Resume, AttachInv, FreshInv, ProviderTypeOK, CallRow, SyncRow,
         FreeCall, Terminal
<1>6. StopInv'
  BY <1>0
     DEF FallbackFails, Retire, Resume, StopInv, SyncInv, AwaitedSync, AwaitedStart,
         ProviderTypeOK, CallRow, FreeCall, FreeSync, NoStarter, StarterRow
<1> QED BY <1>1, <1>2, <1>3, <1>4, <1>5, <1>6 DEF ProviderInv

LEMMA CancelKeeps ==
    ASSUME ProviderInv, NEW q \in Requests, Cancel(q)
    PROVE  ProviderInv'
<1>0. Cancel(q) /\ ProviderTypeOK /\ SyncInv /\ AttachInv /\ StopInv BY DEF ProviderInv
<1>r. ASSUME NEW p \in Requests PROVE AuthorInv(p) /\ FreshInv(p) BY DEF ProviderInv
<1>1. ProviderTypeOK'
  <2>1. CallTyped' BY <1>0 DEF Cancel, CallTyped, CallRow, FreeCall, Terminal
  <2> QED
    BY <1>0, <2>1, Types, TypesAfter
       DEF Cancel, ReqTyped, RunsTyped, SyncTyped, StartersTyped, RestTyped
<1>2. ASSUME NEW p \in Requests PROVE AuthorInv(p)'
  BY <1>0, <1>r DEF Cancel, AuthorInv, Working
<1>3. ASSUME NEW p \in Requests PROVE FreshInv(p)'
  BY <1>0, <1>r DEF Cancel, FreshInv
<1>4. SyncInv'
  BY <1>0, SyncFrame, RunsSame DEF Cancel
<1>5. AttachInv'
  BY <1>0, AttachFrame DEF Cancel
<1>6. StopInv'
  BY <1>0 DEF Cancel, StopInv, AwaitedSync, AwaitedStart, FreeCall
<1> QED BY <1>1, <1>2, <1>3, <1>4, <1>5, <1>6 DEF ProviderInv

LEMMA StopFamilyKeeps ==
    ASSUME ProviderInv, NEW f \in Families, StopFamily(f)
    PROVE  ProviderInv'
<1>0. StopFamily(f) /\ ProviderTypeOK /\ SyncInv /\ AttachInv /\ StopInv BY DEF ProviderInv
<1>r. ASSUME NEW p \in Requests PROVE AuthorInv(p) /\ FreshInv(p) BY DEF ProviderInv
<1>1. ProviderTypeOK'
  <2>1. CallTyped'
    <3> PICK todo : /\ todo \subseteq Requests
                    /\ cl' = IF todo = {} THEN FreeCall
                            ELSE [FreeCall EXCEPT !.pc = "cancel", !.todo = todo]
      BY <1>0 DEF StopFamily
    <3> QED BY FreeRows DEF CallTyped, CallRow, FreeCall, Terminal
  <2> QED
    BY <1>0, <2>1, Types, TypesAfter
       DEF StopFamily, ReqTyped, RunsTyped, SyncTyped, StartersTyped, RestTyped
<1>s. /\ UNCHANGED <<req, nat, sy, fbk, det, resumed>>
        /\ cl.pc = "idle" /\ cl'.pc \in {"idle", "cancel"}
  BY <1>0 DEF StopFamily, FreeCall
<1>2. ASSUME NEW p \in Requests PROVE AuthorInv(p)'
  BY <1>r, <1>s DEF AuthorInv, Working
<1>3. ASSUME NEW p \in Requests PROVE FreshInv(p)'
  BY <1>r, <1>s DEF FreshInv
<1>4. SyncInv'
  BY <1>0, <1>s, SyncFrame, RunsSame
<1>5. AttachInv'
  BY <1>0, <1>s, Types, AttachFrame DEF RestTyped
<1>6. StopInv'
  BY <1>0, <1>s DEF StopInv, AwaitedSync, AwaitedStart, StopFamily
<1> QED BY <1>1, <1>2, <1>3, <1>4, <1>5, <1>6 DEF ProviderInv

LEMMA CancelSyncKeeps ==
    ASSUME ProviderInv, NEW q \in Requests, CancelSync(q)
    PROVE  ProviderInv'
<1>0. CancelSync(q) /\ ProviderTypeOK /\ SyncInv /\ AttachInv /\ StopInv BY DEF ProviderInv
<1>r. ASSUME NEW p \in Requests PROVE AuthorInv(p) /\ FreshInv(p) BY DEF ProviderInv
<1>1. ProviderTypeOK'
  <2>1. CASE Unsynced(q)
    <3>1. /\ SyncRead(q, "cancel")
          /\ cl' = [cl EXCEPT !.pc = "syncing", !.q = q, !.todo = cl.todo \ {q}]
      BY <1>0, <2>1 DEF CancelSync
    <3>2. RunsTyped' BY <1>0, <3>1, Types, RunSet, States DEF SyncRead, RunsTyped
    <3>3. SyncTyped'
      BY <1>0, <2>1, <3>1, Types, RowsTyped DEF Unsynced, SyncRead, SyncTyped, SyncRow
    <3>4. CallTyped' BY <1>0, <3>1, Types DEF CallTyped, CallRow
    <3> QED
      BY <1>0, <3>2, <3>3, <3>4, Types, TypesAfter
         DEF CancelSync, ReqTyped, StartersTyped, RestTyped
  <2>2. CASE ~Unsynced(q)
    <3>0. req[q].st \in Terminal \cup {"none", "open"} /\ req[q].run \in {0} \cup RunIds
      BY <1>0, Types, RowsTyped
    <3>1. CallTyped' BY <1>0, <2>2, <3>0, Types, ZenonT(30) DEF CancelSync, CallTyped, CallRow
    <3> QED
      BY <1>0, <2>2, <3>1, Types, TypesAfter
         DEF CancelSync, ReqTyped, RunsTyped, SyncTyped, StartersTyped, RestTyped
  <2> QED BY <2>1, <2>2
<1>2. ASSUME NEW p \in Requests PROVE AuthorInv(p)'
  <2>1. \A m \in RunIds : Working(p, m)' => Working(p, m)
    BY <1>0, Types DEF CancelSync, SyncRead, Working, RunsTyped, Live
  <2>2. UNCHANGED <<req, fbk>> BY <1>0 DEF CancelSync
  <2> QED BY <1>r, <2>1, <2>2 DEF AuthorInv
<1>3. ASSUME NEW p \in Requests PROVE FreshInv(p)'
  BY <1>0, <1>r, SMTT(20)
     DEF CancelSync, Unsynced, SyncRead, FreshInv, AttachInv, ProviderTypeOK, FreeCall
<1>4. SyncInv'
  BY <1>0 DEF CancelSync, Unsynced, SyncRead, SyncInv, ProviderTypeOK
<1>5. AttachInv'
  <2>1. cl'.pc # "attach" BY <1>0, Types DEF CancelSync, CallTyped, CallRow
  <2>2. UNCHANGED <<req, det, resumed>> BY <1>0 DEF CancelSync
  <2> QED BY <1>0, <2>1, <2>2, AttachFrame
<1>6. StopInv'
  <2>1. cl.pc = "cancel" /\ (\A p \in Requests : ~AwaitedStart(p)) /\ ~AwaitedSync
    BY <1>0 DEF CancelSync, StopInv
  <2>2. \A p \in Requests : ~AwaitedStart(p)' BY <1>0, <2>1 DEF CancelSync, AwaitedStart
  <2>3. CASE Unsynced(q)
    <3>1. /\ SyncRead(q, "cancel")
          /\ cl' = [cl EXCEPT !.pc = "syncing", !.q = q, !.todo = cl.todo \ {q}]
      BY <1>0, <2>3 DEF CancelSync
    <3>2. cl'.pc = "syncing" /\ cl'.q = q BY <1>0, <3>1, Types DEF CallTyped, CallRow
    <3>3. sy'.q = q BY <3>1 DEF SyncRead
    <3> QED BY <2>2, <3>2, <3>3 DEF StopInv
  <2>4. CASE ~Unsynced(q)
    <3>1. cl'.pc = "act" /\ cl'.q = q /\ UNCHANGED sy
      BY <1>0, <2>4, Types DEF CancelSync, CallTyped, CallRow
    <3> QED BY <2>1, <2>2, <3>1 DEF StopInv, AwaitedSync
  <2> QED BY <2>3, <2>4
<1> QED BY <1>1, <1>2, <1>3, <1>4, <1>5, <1>6 DEF ProviderInv

LEMMA CancelActKeeps ==
    ASSUME ProviderInv, CancelAct
    PROVE  ProviderInv'
<1>0. CancelAct /\ ProviderTypeOK /\ SyncInv /\ AttachInv /\ StopInv BY DEF ProviderInv
<1>r. ASSUME NEW p \in Requests PROVE AuthorInv(p) /\ FreshInv(p) BY DEF ProviderInv
<1>1. ProviderTypeOK'
  <2>1. ReqTyped'
    <3> PICK row : row = [req[cl.q] EXCEPT !.st = "cancelled"] OBVIOUS
    <3>1. cl.q \in Requests => row \in ReqRow BY <1>0, Types, RowsTyped, ReqRows DEF Terminal
    <3> QED BY <1>0, <3>1, Types, ReqSet DEF CancelAct, ReqTyped
  <2>2. CallTyped'
    BY <1>0, Types, FreeRows DEF CancelAct, NextCall, CallTyped, CallRow, FreeCall
  <2> QED
    BY <1>0, <2>1, <2>2, Types, TypesAfter
       DEF CancelAct, RunsTyped, SyncTyped, StartersTyped, RestTyped
<1>2. ASSUME NEW p \in Requests PROVE AuthorInv(p)'
  BY <1>0, <1>r DEF CancelAct, NextCall, Resumable, AuthorInv, Working
<1>3. ASSUME NEW p \in Requests PROVE FreshInv(p)'
  BY <1>0, <1>r DEF CancelAct, NextCall, Resumable, FreshInv
<1>4. SyncInv'
  BY <1>0, SyncFrame, RunsSame DEF CancelAct, NextCall, Resumable
<1>5. AttachInv'
  BY <1>0 DEF CancelAct, NextCall, Resumable, AttachInv, FreeCall
<1>6. StopInv'
  BY <1>0 DEF CancelAct, NextCall, Resumable, StopInv, AwaitedSync, AwaitedStart, FreeCall
<1> QED BY <1>1, <1>2, <1>3, <1>4, <1>5, <1>6 DEF ProviderInv

LEMMA CancelRunKeeps ==
    ASSUME ProviderInv, CancelRun
    PROVE  ProviderInv'
<1>0. CancelRun /\ ProviderTypeOK /\ SyncInv /\ AttachInv /\ StopInv BY DEF ProviderInv
<1>r. ASSUME NEW p \in Requests PROVE AuthorInv(p) /\ FreshInv(p) BY DEF ProviderInv
<1>1. ProviderTypeOK'
  <2>1. RunsTyped' BY <1>0, Types, RunSet, States DEF CancelRun, RunsTyped
  <2>2. CallTyped'
    BY <1>0, Types, FreeRows DEF CancelRun, NextCall, CallTyped, CallRow, FreeCall
  <2> QED
    BY <1>0, <2>1, <2>2, Types, TypesAfter
       DEF CancelRun, ReqTyped, SyncTyped, StartersTyped, RestTyped
<1>2. ASSUME NEW p \in Requests PROVE AuthorInv(p)'
  BY <1>0, <1>r DEF CancelRun, NextCall, AuthorInv, Working, ProviderTypeOK, Live, Ended
<1>3. ASSUME NEW p \in Requests PROVE FreshInv(p)'
  BY <1>0, <1>r DEF CancelRun, NextCall, FreshInv
<1>4. SyncInv'
  BY <1>0 DEF CancelRun, NextCall, SyncInv, FreeSync
<1>5. AttachInv'
  BY <1>0 DEF CancelRun, NextCall, AttachInv, FreeCall
<1>6. StopInv'
  BY <1>0 DEF CancelRun, NextCall, StopInv, AwaitedSync, AwaitedStart, FreeCall
<1> QED BY <1>1, <1>2, <1>3, <1>4, <1>5, <1>6 DEF ProviderInv

LEMMA CrashKeeps ==
    ASSUME ProviderInv, Crash
    PROVE  ProviderInv'
<1>0. Crash /\ ProviderTypeOK /\ SyncInv /\ AttachInv /\ StopInv BY DEF ProviderInv
<1>r. ASSUME NEW p \in Requests PROVE AuthorInv(p) /\ FreshInv(p) BY DEF ProviderInv
<1>1. ProviderTypeOK'
  <2> QED BY <1>0, Types, TypesAfter, FreeRows, ProviderAssumption
        DEF Crash, ReqTyped, RunsTyped, CallTyped, SyncTyped, StartersTyped, RestTyped
<1>s. /\ UNCHANGED <<req, nat>> /\ sy'.pc = "idle"
        /\ \A p \in Requests : fbk'[p].pc = "none"
  BY <1>0 DEF Crash, FreeSync, NoStarter
<1>2. ASSUME NEW p \in Requests PROVE AuthorInv(p)'
  BY <1>r, <1>s DEF AuthorInv, Working
<1>3. ASSUME NEW p \in Requests PROVE FreshInv(p)'
  BY <1>r, <1>s DEF FreshInv
<1>4. SyncInv'
  BY <1>0 DEF Crash, SyncInv, FreeSync
<1>5. AttachInv'
  BY <1>0 DEF Crash, AttachInv, FreeCall
<1>6. StopInv'
  BY <1>0
     DEF Crash, StopInv, SyncInv, AwaitedSync, AwaitedStart, ProviderTypeOK, CallRow, FreeCall,
         FreeSync, NoStarter, StarterRow
<1> QED BY <1>1, <1>2, <1>3, <1>4, <1>5, <1>6 DEF ProviderInv

LEMMA DetachedReadKeeps ==
    ASSUME ProviderInv, NEW q \in Requests, DetachedRead(q)
    PROVE  ProviderInv'
<1>0. DetachedRead(q) /\ ProviderTypeOK /\ SyncInv /\ AttachInv /\ StopInv BY DEF ProviderInv
<1>r. ASSUME NEW p \in Requests PROVE AuthorInv(p) /\ FreshInv(p) BY DEF ProviderInv
<1>1. ProviderTypeOK'
  <2> QED
    BY <1>0, Types, TypesAfter
       DEF DetachedRead, ReqTyped, RunsTyped, CallTyped, SyncTyped, StartersTyped, RestTyped
<1>s. UNCHANGED <<req, nat, cl, sy, fbk, resumed>> BY <1>0 DEF DetachedRead
<1>2. ASSUME NEW p \in Requests PROVE AuthorInv(p)'
  BY <1>r, <1>s DEF AuthorInv, Working
<1>3. ASSUME NEW p \in Requests PROVE FreshInv(p)'
  BY <1>r, <1>s DEF FreshInv
<1>4. SyncInv'
  BY <1>0, <1>s, SyncFrame, RunsSame
<1>5. AttachInv'
  BY <1>0, <1>s DEF AttachInv, DetachedRead
<1>6. StopInv'
  BY <1>0, <1>s, StopFrame
<1> QED BY <1>1, <1>2, <1>3, <1>4, <1>5, <1>6 DEF ProviderInv

LEMMA DetachedFailKeeps ==
    ASSUME ProviderInv, DetachedFail
    PROVE  ProviderInv'
<1>0. DetachedFail /\ ProviderTypeOK /\ SyncInv /\ AttachInv /\ StopInv BY DEF ProviderInv
<1>r. ASSUME NEW p \in Requests PROVE AuthorInv(p) /\ FreshInv(p) BY DEF ProviderInv
<1>1. ProviderTypeOK'
  <2>1. ReqTyped'
    <3> PICK row : row = [req[det] EXCEPT !.st = "failed"] OBVIOUS
    <3>1. det \in Requests => row \in ReqRow BY <1>0, Types, RowsTyped, ReqRows DEF Terminal
    <3> QED BY <1>0, <3>1, Types, ReqSet DEF DetachedFail
  <2> QED
    BY <1>0, <2>1, Types, TypesAfter
       DEF DetachedFail, RunsTyped, CallTyped, SyncTyped, StartersTyped, RestTyped
<1>2. ASSUME NEW p \in Requests PROVE AuthorInv(p)'
  BY <1>0, <1>r DEF DetachedFail, AuthorInv, Working
<1>3. ASSUME NEW p \in Requests PROVE FreshInv(p)'
  BY <1>0, <1>r DEF DetachedFail, FreshInv
<1>4. SyncInv'
  BY <1>0, SyncFrame, RunsSame DEF DetachedFail
<1>5. AttachInv'
  BY <1>0 DEF DetachedFail, AttachInv, FreeCall
<1>6. StopInv'
  BY <1>0, StopFrame DEF DetachedFail
<1> QED BY <1>1, <1>2, <1>3, <1>4, <1>5, <1>6 DEF ProviderInv

-----------------------------------------------------------------------------
LEMMA ProviderStart == ASSUME Init PROVE ProviderInv
<1>1. ProviderTypeOK
  BY ProviderAssumption DEF Init, ProviderTypeOK, CallRow, FreeCall, SyncRow, FreeSync,
      StarterRow, NoStarter, Terminal, Live, Ended
<1>2. ASSUME NEW q \in Requests PROVE AuthorInv(q) /\ FreshInv(q)
  BY <1>2 DEF Init, AuthorInv, FreshInv, Working, Live, NoStarter, FreeSync
<1>3. SyncInv /\ AttachInv /\ StopInv
  BY
     DEF Init, SyncInv, AttachInv, StopInv, AwaitedSync, AwaitedStart, FreeCall, FreeSync,
         NoStarter
<1> QED BY <1>1, <1>2, <1>3 DEF ProviderInv

LEMMA ProviderStep == ASSUME ProviderInv, [Next]_pvars PROVE ProviderInv'
<1>1. ASSUME NEW q \in Requests,
             \/ Create(q) \/ Reopen(q) \/ Observe(q) \/ AssignFallback(q) \/ StartFallback(q)
             \/ FallbackFails(q) \/ Cancel(q) \/ CancelSync(q) \/ DetachedRead(q)
      PROVE  ProviderInv'
  BY <1>1, CreateKeeps, ReopenKeeps, ObserveKeeps, AssignFallbackKeeps, StartFallbackKeeps,
     FallbackFailsKeeps, CancelKeeps, CancelSyncKeeps, DetachedReadKeeps
<1>2. ASSUME NEW q \in Requests, NEW n \in RunIds, RunStep(q, n) PROVE ProviderInv'
  BY <1>2, RunStepKeeps
<1>3. ASSUME NEW attached \in BOOLEAN, StartFails(attached) PROVE ProviderInv'
  BY <1>3, StartFailsKeeps
<1>4. ASSUME NEW f \in Families, StopFamily(f) PROVE ProviderInv'
  BY <1>4, StopFamilyKeeps
<1>5. CASE \/ Attach \/ ClaimFallback \/ Commit \/ Advance
           \/ CancelAct \/ CancelRun \/ Crash \/ DetachedFail
  BY <1>5, AttachKeeps, ClaimFallbackKeeps, CommitKeeps, AdvanceKeeps, CancelActKeeps,
     CancelRunKeeps, CrashKeeps, DetachedFailKeeps
<1>6. CASE UNCHANGED pvars
  BY <1>6
     DEF pvars, ProviderInv, ProviderTypeOK, AuthorInv, FreshInv, SyncInv, AttachInv, StopInv,
     AwaitedSync, AwaitedStart, Working
<1> QED BY <1>1, <1>2, <1>3, <1>4, <1>5, <1>6 DEF Next

\* ProviderInv is an invariant of every conversation, for any number of requests, families,
\* turns, native runs, crashes and failed starts.
THEOREM ProviderCorrect == ProviderSpec => []ProviderInv
BY ProviderStart, ProviderStep, PTL DEF ProviderSpec

\* A set of runs in which all members are equal has at most one.
LEMMA AtMostOne ==
    ASSUME NEW S, \A m, n \in S : m = n
    PROVE  Cardinality(S) <= 1
<1>1. CASE S = {} BY <1>1, FS_EmptySet
<1>2. CASE S # {}
  <2> PICK n \in S : TRUE BY <1>2
  <2>1. S = {n} OBVIOUS
  <2>2. Cardinality(S) = 1 BY ONLY <2>1, FS_Singleton
  <2> QED BY <2>2
<1> QED BY <1>1, <1>2

\* Two native runs never author the same request at once, whatever observers saw the failed
\* run, and however a crash cut off the start of the fallback
\* (claim_provider_request_fallback, _start_serial_fallback).
THEOREM OnlyOneAuthor == ProviderSpec => []OneAuthor
<1>1. ASSUME ProviderInv, NEW q \in Requests
      PROVE  Cardinality({n \in RunIds : nat[q][n] \in Live \cup {"needs_input"}}) <= 1
  <2>1. AuthorInv(q) BY <1>1 DEF ProviderInv
  <2> QED BY <2>1, AtMostOne DEF AuthorInv, Working
<1>2. ProviderInv => OneAuthor BY <1>1 DEF OneAuthor
<1> QED BY <1>2, ProviderCorrect, PTL

\* A completed request was answered by the run that it names, which completed with a response
\* (commit_provider_request_terminal against the synchronisations that read other runs).
THEOREM AnswersAreReal == ProviderSpec => []CompletedIsAnswered
<1>1. ProviderInv => CompletedIsAnswered BY DEF ProviderInv, FreshInv, CompletedIsAnswered
<1> QED BY <1>1, ProviderCorrect, PTL

\* A Stop is final: a cancelled request never completes, is never opened again and gets no
\* other run, and a stopped family opens no request (cancel, cancel_by_idempotency).
THEOREM StopsAreFinal == ProviderSpec => StopHolds
<1> DEFINE StopKept(q) ==
    /\ req[q].st = "cancelled" =>
          req'[q].st \in {"cancelled", "failed"} /\ req'[q].run = req[q].run
    /\ Family[q] \in stopped /\ req[q].st # "open" => req'[q].st # "open"
<1>1. ASSUME ProviderInv, Next, NEW q \in Requests PROVE StopKept(q)
  <2>0. ProviderTypeOK /\ AttachInv /\ SyncInv /\ ReqTyped BY <1>1, Types DEF ProviderInv
  <2>1. CASE req'[q] = req[q] BY <2>1
  <2>2. ASSUME NEW p \in Requests, Create(p) PROVE StopKept(q)
    BY <2>0, <2>2 DEF ReqTyped, ReqRow, Create, Admits
  <2>3. ASSUME NEW p \in Requests, Reopen(p) PROVE StopKept(q)
    BY <2>0, <2>3 DEF ReqTyped, ReqRow, Reopen
  <2>4. ASSUME NEW p \in Requests, StartFallback(p) PROVE StopKept(q)
    BY <2>0, <2>4 DEF ReqTyped, ReqRow, StartFallback, StartFits
  <2>5. ASSUME NEW p \in Requests, FallbackFails(p) PROVE StopKept(q)
    BY <2>0, <2>5 DEF ReqTyped, ReqRow, FallbackFails
  <2>6. CASE Attach BY <2>0, <2>6 DEF ReqTyped, ReqRow, Attach, AttachInv
  <2>7. ASSUME NEW attached \in BOOLEAN, StartFails(attached) PROVE StopKept(q)
    BY <2>0, <2>7 DEF ReqTyped, ReqRow, StartFails, AttachInv
  <2>8. CASE ClaimFallback BY <2>0, <2>8 DEF ReqTyped, ReqRow, ClaimFallback
  <2>9. CASE Commit BY <2>0, <2>9 DEF ReqTyped, ReqRow, Commit, CommitFits, FinalState
  <2>10. CASE Advance BY <2>0, <2>10 DEF ReqTyped, ReqRow, Advance
  <2>11. CASE CancelAct BY <2>0, <2>11 DEF ReqTyped, ReqRow, CancelAct
  <2>12. CASE DetachedFail BY <2>0, <2>12 DEF ReqTyped, ReqRow, DetachedFail
  <2>13. ASSUME NEW p \in Requests,
                Observe(p) \/ AssignFallback(p) \/ Cancel(p) \/ CancelSync(p) \/ DetachedRead(p)
         PROVE  req' = req
    BY <2>13 DEF Observe, AssignFallback, Cancel, CancelSync, DetachedRead
  <2>14. ASSUME NEW p \in Requests, NEW n \in RunIds, RunStep(p, n) PROVE req' = req
    BY <2>14 DEF RunStep
  <2>15. ASSUME NEW f \in Families, StopFamily(f) PROVE req' = req BY <2>15 DEF StopFamily
  <2>16. CASE CancelRun \/ Crash BY <2>16, <2>1 DEF CancelRun, Crash
  <2> QED BY <1>1, <2>1, <2>2, <2>3, <2>4, <2>5, <2>6, <2>7, <2>8, <2>9, <2>10, <2>11, <2>12,
             <2>13, <2>14, <2>15, <2>16 DEF Next
<1>2. ASSUME ProviderInv, [Next]_pvars
      PROVE  [\A q \in Requests : StopKept(q)]_pvars
  BY <1>1, <1>2
<1> QED BY <1>2, ProviderCorrect, PTL DEF ProviderSpec, StopHolds

-----------------------------------------------------------------------------
(* ProviderAccounts: what the argument needs to know of rows and threads.    *)

BindRow == [pc : {"idle", "acquire", "reconcile", "bound", "ready", "task", "close", "release",
                  "unlease", "fallback", "issue", "brokered", "unbound"},
            beat : {"off", "on", "abort"}, released : BOOLEAN]
ClerkRow == [pc : {"idle", "connecting", "cancelled", "seal", "write", "unsafe", "checked",
                   "logout", "remove", "disconnect"},
             auth : BOOLEAN]
RunRow == [st : {"none", "queued", "claimed", "running"}, given : 0 .. 1]
LeaseStates == {"none", "live", "orphan", "expired"}

AccountTypes ==
    /\ bind \in [Flows -> BindRow]
    /\ DOMAIN clerk = Clerks /\ \A c \in Clerks : DOMAIN clerk[c] = {"pc", "auth"}
    /\ lease \in [Holders -> LeaseStates]

(* The table has one holder at most.                                         *)
Holds(h) == lease[h] \in {"live", "orphan"}
OneHolder == \A g, h \in Holders : Holds(g) /\ Holds(h) => g = h

(* While heartbeats are in time, whoever is about to mount the home or to remove it has the
   lease, and nothing is mounted when a container is about to be started. *)
HolderWorks ==
    /\ \A f \in Flows : bind[f].pc \in {"reconcile", "bound"} => lease[f] = "live"
    /\ \A c \in Clerks : clerk[c].pc \in {"logout", "remove", "disconnect"} => lease[c] = "live"
NothingElseMounted ==
    /\ \A f \in Flows : bind[f].pc = "bound" => mounted = {}
    /\ \A v, w \in mounted : v = w

HomeInv == AccountTypes /\ OneHolder /\ (~late => HolderWorks /\ NothingElseMounted)

(* A session is no flow and no thread, and a thread is no flow. *)
Apart == Flows \cap Clerks = {} /\ Session \notin Flows \cup Clerks

-----------------------------------------------------------------------------
LEMMA HomeStarts == ASSUME AccountsInit PROVE HomeInv
<1>1. AccountTypes
  BY DEF AccountsInit, AccountTypes, BindRow, NoBind, LeaseStates
<1>2. OneHolder
  BY DEF AccountsInit, OneHolder, Holds
<1>3. HolderWorks /\ NothingElseMounted
  BY DEF AccountsInit, HolderWorks, NothingElseMounted, NoBind
<1>4. QED BY <1>1, <1>2, <1>3 DEF HomeInv

(* A step of a flow that takes no lease and starts no container.             *)
LEMMA FlowStep ==
    ASSUME HomeInv, NEW f \in Flows, NEW new \in BindRow, bind' = [bind EXCEPT ![f] = new],
           new.pc \in {"reconcile", "bound"} => new.pc = bind[f].pc,
           lease' = lease \/ lease' = [lease EXCEPT ![f] = "none"],
           lease' # lease => new.pc \notin {"reconcile", "bound"},
           mounted' \subseteq mounted, UNCHANGED <<clerk, late>>,
           Apart
    PROVE  HomeInv'
<1> USE DEF HomeInv, AccountTypes
<1>1. /\ bind'[f] = new /\ \A g \in Flows : g # f => bind'[g] = bind[g]
      /\ bind' \in [Flows -> BindRow]
  OBVIOUS
<1>2. /\ lease' \in [Holders -> LeaseStates]
      /\ \A h \in Holders : lease'[h] = lease[h] \/ (h = f /\ lease'[h] = "none")
  <2>1. f \in Holders
    BY DEF Holders
  <2>2. QED BY <2>1 DEF LeaseStates
<1>3. AccountTypes'
  BY <1>1, <1>2
<1>4. OneHolder'
  BY <1>2 DEF OneHolder, Holds
<1>5. ASSUME ~late' PROVE HolderWorks'
  <2>1. ASSUME NEW g \in Flows, bind'[g].pc \in {"reconcile", "bound"} PROVE lease'[g] = "live"
    <3>1. g \in Holders /\ bind[g].pc \in {"reconcile", "bound"} /\ lease[g] = "live"
      BY <1>1, <1>5, <2>1 DEF Holders, HolderWorks
    <3>2. CASE lease' = lease
      BY <3>1, <3>2
    <3>3. CASE lease' # lease
      BY <1>1, <1>2, <2>1, <3>1, <3>3
    <3>4. QED BY <3>2, <3>3
  <2>2. ASSUME NEW c \in Clerks, clerk'[c].pc \in {"logout", "remove", "disconnect"}
        PROVE  lease'[c] = "live"
    <3>1. c \in Holders /\ c # f
      BY DEF Holders, Apart
    <3>2. QED BY <1>2, <1>5, <2>2, <3>1 DEF HolderWorks
  <2>3. QED BY <2>1, <2>2 DEF HolderWorks
<1>6. ASSUME ~late' PROVE NothingElseMounted'
  BY <1>1, <1>6 DEF NothingElseMounted
<1>7. QED BY <1>3, <1>4, <1>5, <1>6

(* Program counters of a flow that does not rely on its lease.               *)
Away == {"idle", "acquire", "ready", "task", "close", "release", "unlease", "fallback", "issue",
         "brokered", "unbound"}

LEMMA FlowMoves ==
    ASSUME HomeInv, Apart, NEW f \in Flows,
           bind' = [bind EXCEPT ![f] = NoBind] \/ \E p \in Away : Go(f, p),
           lease' = lease \/ Free(f), mounted' \subseteq mounted, UNCHANGED <<clerk, late>>
    PROVE  HomeInv'
<1>1. bind[f] \in BindRow
  BY DEF HomeInv, AccountTypes
<1>2. CASE bind' = [bind EXCEPT ![f] = NoBind]
  <2>1. NoBind \in BindRow /\ NoBind.pc = "idle"
    BY DEF NoBind, BindRow
  <2>2. QED BY <1>2, <2>1, FlowStep DEF Free
<1>3. CASE \E p \in Away : Go(f, p)
  <2>1. PICK p \in Away : Go(f, p)
    BY <1>3
  <2> DEFINE new == [bind[f] EXCEPT !.pc = p]
  <2>2. new \in BindRow /\ new.pc = p
    BY <1>1 DEF BindRow, Away
  <2>3. bind' = [bind EXCEPT ![f] = new]
    BY <2>1 DEF Go
  <2>4. p \notin {"reconcile", "bound"}
    BY DEF Away
  <2> HIDE DEF new
  <2>5. QED BY <2>2, <2>3, <2>4, FlowStep DEF Free
<1>4. QED BY <1>2, <1>3

LEMMA GivesUp == ASSUME NEW f \in Flows, GiveUp(f)
                 PROVE  bind' = [bind EXCEPT ![f] = NoBind] \/ \E p \in Away : Go(f, p)
<1>1. "fallback" \in Away
  BY DEF Away
<1>2. QED BY <1>1 DEF GiveUp

(* A flow takes the lease: nobody holds one.                                 *)
LEMMA FlowTakes ==
    ASSUME HomeInv, Apart, NEW f \in Flows, ~Held, Take(f), Go(f, "reconcile"),
           UNCHANGED <<mounted, clerk, late>>
    PROVE  HomeInv'
<1> USE DEF HomeInv, AccountTypes
<1>1. /\ bind'[f].pc = "reconcile" /\ \A g \in Flows : g # f => bind'[g] = bind[g]
      /\ bind' \in [Flows -> BindRow]
  BY DEF Go, BindRow
<1>2. f \in Holders /\ \A h \in Holders : ~Holds(h)
  BY DEF Holders, Held, Holds
<1>3. /\ lease' \in [Holders -> LeaseStates]
      /\ \A h \in Holders : lease'[h] = IF h = f THEN "live" ELSE lease[h]
  BY <1>2 DEF Take, LeaseStates
<1>4. AccountTypes'
  BY <1>1, <1>3
<1>5. OneHolder'
  BY <1>2, <1>3 DEF OneHolder, Holds
<1>6. ASSUME ~late' PROVE HolderWorks' /\ NothingElseMounted'
  <2>1. HolderWorks /\ NothingElseMounted
    BY <1>6
  <2>2. \A g \in Flows : bind[g].pc \notin {"reconcile", "bound"}
    BY <1>2, <2>1 DEF HolderWorks, Holders, Holds
  <2>3. \A c \in Clerks : clerk[c].pc \notin {"logout", "remove", "disconnect"}
    BY <1>2, <2>1 DEF HolderWorks, Holders, Holds
  <2>4. HolderWorks'
    BY <1>1, <1>3, <1>2, <2>2, <2>3 DEF HolderWorks
  <2>5. NothingElseMounted'
    BY <1>1, <2>1, <2>2 DEF NothingElseMounted
  <2>6. QED BY <2>4, <2>5
<1>7. QED BY <1>4, <1>5, <1>6

(* Stale mounts are removed; the home is prepared for a container.           *)
LEMMA FlowPrepares ==
    ASSUME HomeInv, Apart, NEW f \in Flows, bind[f].pc = "reconcile", mounted' = {},
           bind' = [bind EXCEPT ![f] = [pc |-> "bound", beat |-> "on", released |-> FALSE]],
           UNCHANGED <<lease, clerk, late>>
    PROVE  HomeInv'
<1> USE DEF HomeInv, AccountTypes
<1>1. /\ bind'[f].pc = "bound" /\ \A g \in Flows : g # f => bind'[g] = bind[g]
      /\ bind' \in [Flows -> BindRow]
  BY DEF BindRow
<1>2. AccountTypes' /\ OneHolder'
  BY <1>1 DEF OneHolder, Holds
<1>3. ASSUME ~late' PROVE HolderWorks' /\ NothingElseMounted'
  BY <1>1, <1>3 DEF HolderWorks, NothingElseMounted
<1>4. QED BY <1>2, <1>3

(* The container is started: the flow holds the lease and nothing is mounted. *)
LEMMA FlowMounts ==
    ASSUME HomeInv, Apart, NEW f \in Flows, bind[f].pc = "bound", Go(f, "ready"),
           mounted' = mounted \cup {f[1]}, UNCHANGED <<lease, clerk, late>>
    PROVE  HomeInv'
<1> USE DEF HomeInv, AccountTypes
<1>1. /\ bind'[f].pc = "ready" /\ \A g \in Flows : g # f => bind'[g] = bind[g]
      /\ bind' \in [Flows -> BindRow]
  BY DEF Go, BindRow
<1>2. AccountTypes' /\ OneHolder'
  BY <1>1 DEF OneHolder, Holds
<1>3. ASSUME ~late' PROVE HolderWorks' /\ NothingElseMounted'
  <2>1. HolderWorks /\ mounted = {} /\ lease[f] = "live"
    BY <1>3 DEF HolderWorks, NothingElseMounted
  <2>2. \A g \in Flows : bind'[g].pc # "bound"
    <3>1. SUFFICES ASSUME NEW g \in Flows, bind'[g].pc = "bound" PROVE FALSE
      OBVIOUS
    <3>2. g # f /\ bind[g].pc = "bound" /\ lease[g] = "live"
      BY <1>1, <2>1, <3>1 DEF HolderWorks
    <3>3. g \in Holders /\ f \in Holders /\ Holds(f) /\ Holds(g)
      BY <2>1, <3>2 DEF Holders, Holds
    <3>4. QED BY <3>2, <3>3 DEF OneHolder
  <2>3. HolderWorks'
    BY <1>1, <2>1 DEF HolderWorks
  <2>4. QED BY <2>1, <2>2, <2>3 DEF NothingElseMounted
<1>4. QED BY <1>2, <1>3

(* A step of a clerk keeps the leases but its own and the session's, or takes one that nobody
   holds, or releases all of them when it has the account to itself. *)
LEMMA ClerkStep ==
    ASSUME HomeInv, Apart, NEW c \in Clerks, AccountTypes',
           UNCHANGED <<bind, late>>, mounted' \subseteq mounted,
           \A d \in Clerks : d # c => clerk'[d] = clerk[d],
           ~late /\ clerk'[c].pc \in {"logout", "remove", "disconnect"} => lease'[c] = "live",
           \/ \A h \in Holders : lease'[h] = lease[h] \/ (lease'[h] = "none" /\ h \in {c, Session})
           \/ \E t \in {c, Session} :
                 /\ \A h \in Holders : h # t => lease'[h] \notin {"live", "orphan"}
                 /\ \A h \in Holders : h \notin {c, Session} => lease'[h] = lease[h]
           \/ (~late => lease[c] = "live") /\ \A h \in Holders : lease'[h] = "none"
    PROVE  HomeInv'
<1>1. c \in Holders /\ Session \in Holders /\ Flows \subseteq Holders /\ Clerks \subseteq Holders
  BY DEF Holders
<1>2. OneHolder'
  BY DEF HomeInv, OneHolder, Holds
<1>3. ASSUME ~late PROVE HolderWorks'
  <2>1. HolderWorks /\ OneHolder
    BY <1>3 DEF HomeInv
  <2>2. ASSUME NEW h \in Holders \ {c, Session}, lease[h] = "live" PROVE lease'[h] = "live"
    <3>1. CASE \E t \in {c, Session} :
                 /\ \A g \in Holders : g # t => lease'[g] \notin {"live", "orphan"}
                 /\ \A g \in Holders : g \notin {c, Session} => lease'[g] = lease[g]
      BY <2>2, <3>1
    <3>2. CASE (~late => lease[c] = "live") /\ \A g \in Holders : lease'[g] = "none"
      BY <1>1, <1>3, <2>1, <2>2, <3>2 DEF OneHolder, Holds
    <3>3. QED BY <2>2, <3>1, <3>2
  <2>3. \A f \in Flows : f \in Holders \ {c, Session}
    BY <1>1 DEF Apart
  <2>4. \A d \in Clerks : d # c => d \in Holders \ {c, Session}
    BY <1>1 DEF Apart
  <2>5. QED BY <1>3, <2>1, <2>2, <2>3, <2>4 DEF HolderWorks
<1>4. ASSUME ~late PROVE NothingElseMounted'
  BY <1>4 DEF HomeInv, NothingElseMounted
<1>5. QED BY <1>2, <1>3, <1>4 DEF HomeInv

LEMMA FlowKeepsHome == ASSUME HomeInv, Apart, NEW f \in Flows, Bind(f) PROVE HomeInv'
<1>1. CASE ReserveRoute(f)
  <2>1. "acquire" \in Away
    BY DEF Away
  <2>2. QED BY <1>1, <2>1, GivesUp, FlowMoves DEF ReserveRoute
<1>2. CASE Acquire(f)
  <2>1. CASE Take(f) /\ Go(f, "reconcile") /\ ~Held
    BY <1>2, <2>1, FlowTakes DEF Acquire
  <2>2. CASE GiveUp(f) /\ UNCHANGED lease
    BY <1>2, <2>2, GivesUp, FlowMoves DEF Acquire
  <2>3. QED BY <1>2, <2>1, <2>2 DEF Acquire, CanLease
<1>3. CASE Prepare(f)
  <2>1. CASE mounted' = NoMounts /\ UNCHANGED lease
             /\ bind' = [bind EXCEPT ![f] = [pc |-> "bound", beat |-> "on", released |-> FALSE]]
    BY <1>3, <2>1, FlowPrepares DEF Prepare, NoMounts, BindAt
  <2>2. CASE Free(f) /\ bind' = [bind EXCEPT ![f] = NoBind] /\ UNCHANGED mounted
    BY <1>3, <2>2, FlowMoves DEF Prepare
  <2>3. QED BY <1>3, <2>1, <2>2 DEF Prepare
<1>4. CASE EnsureReady(f)
  BY <1>4, FlowMounts DEF EnsureReady, BindAt
<1>5. CASE StartTask(f)
  <2>1. "task" \in Away /\ "close" \in Away
    BY DEF Away
  <2>2. QED BY <1>5, <2>1, FlowMoves DEF StartTask
<1>6. CASE EndTask(f)
  <2>1. "close" \in Away
    BY DEF Away
  <2>2. QED BY <1>6, <2>1, FlowMoves DEF EndTask
<1>7. CASE BeginClose(f)
  <2>1. "release" \in Away
    BY DEF Away
  <2>2. QED BY <1>7, <2>1, FlowMoves DEF BeginClose
<1>8. CASE ReleaseBinding(f)
  <2>1. "unlease" \in Away /\ Unmounted(f) \subseteq mounted
    BY DEF Away, Unmounted
  <2>2. CASE mounted' = Unmounted(f) /\ bind' = [bind EXCEPT ![f].released = TRUE, ![f].pc = "unlease"]
    <3> DEFINE new == [[bind[f] EXCEPT !.released = TRUE] EXCEPT !.pc = "unlease"]
    <3>1. bind[f] \in BindRow
      BY DEF HomeInv, AccountTypes
    <3>2. new \in BindRow /\ new.pc = "unlease"
      BY <3>1 DEF BindRow
    <3>3. bind' = [bind EXCEPT ![f] = new]
      BY <2>2 DEF HomeInv, AccountTypes
    <3> HIDE DEF new
    <3>4. QED BY <1>8, <2>1, <2>2, <3>2, <3>3, FlowStep DEF ReleaseBinding
  <2>3. CASE Go(f, "unlease") /\ UNCHANGED mounted
    BY <1>8, <2>1, <2>3, FlowMoves DEF ReleaseBinding
  <2>4. QED BY <1>8, <2>2, <2>3 DEF ReleaseBinding
<1>9. CASE Unlease(f)
  BY <1>9, FlowMoves DEF Unlease
<1>10. CASE LoseLease(f)
  <2> DEFINE new == [bind[f] EXCEPT !.beat = "abort"]
  <2>1. bind[f] \in BindRow
    BY DEF HomeInv, AccountTypes
  <2>2. new \in BindRow /\ new.pc = bind[f].pc
    BY <2>1 DEF BindRow
  <2>3. bind' = [bind EXCEPT ![f] = new]
    BY <1>10 DEF LoseLease
  <2> HIDE DEF new
  <2>4. QED BY <1>10, <2>2, <2>3, FlowStep DEF LoseLease
<1>11. CASE Abort(f)
  <2> DEFINE new == [[bind[f] EXCEPT !.beat = "off"] EXCEPT !.released = TRUE]
  <2>1. bind[f] \in BindRow
    BY DEF HomeInv, AccountTypes
  <2>2. new \in BindRow /\ new.pc = bind[f].pc
    BY <2>1 DEF BindRow
  <2>3. bind' = [bind EXCEPT ![f] = new]
    BY <1>11 DEF Abort, HomeInv, AccountTypes
  <2>4. mounted' \subseteq mounted
    BY <1>11 DEF Abort, Unmounted
  <2> HIDE DEF new
  <2>5. QED BY <1>11, <2>2, <2>3, <2>4, FlowStep DEF Abort
<1>12. CASE Borrow(f) \/ GiveBack(f)
  BY <1>12 DEF Borrow, GiveBack, HomeInv, AccountTypes, OneHolder, Holds, HolderWorks,
               NothingElseMounted
<1>13. CASE Fallback(f)
  <2>1. "unbound" \in Away
    BY DEF Away
  <2>2. QED BY <1>13, <2>1, FlowMoves DEF Fallback
<1>14. CASE Brokered(f)
  <2>1. "issue" \in Away
    BY DEF Away
  <2>2. QED BY <1>14, <2>1, GivesUp, FlowMoves DEF Brokered
<1>15. CASE Issue(f)
  <2>1. "brokered" \in Away /\ "unbound" \in Away
    BY DEF Away
  <2>2. QED BY <1>15, <2>1, FlowMoves DEF Issue
<1>16. CASE EndBrokered(f)
  <2>1. "unbound" \in Away
    BY DEF Away
  <2>2. QED BY <1>16, <2>1, FlowMoves DEF EndBrokered
<1>17. CASE CloseUnbound(f)
  <2>1. CASE bind' = [bind EXCEPT ![f] = NoBind]
    BY <1>17, <2>1, FlowMoves DEF CloseUnbound
  <2>2. CASE UNCHANGED bind
    BY <1>17, <2>2 DEF CloseUnbound, HomeInv, AccountTypes, OneHolder, Holds, HolderWorks,
                       NothingElseMounted
  <2>3. QED BY <1>17, <2>1, <2>2 DEF CloseUnbound
<1>18. QED
  BY <1>1, <1>2, <1>3, <1>4, <1>5, <1>6, <1>7, <1>8, <1>9, <1>10, <1>11, <1>12, <1>13, <1>14,
     <1>15, <1>16, <1>17 DEF Bind

Removing == {"logout", "remove", "disconnect"}

(* The rows of the clerks and the table of leases keep their types.          *)
LEMMA ClerkGoes ==
    ASSUME AccountTypes, NEW c \in Clerks, NEW p, ClerkGo(c, p)
    PROVE  /\ DOMAIN clerk' = Clerks /\ \A d \in Clerks : DOMAIN clerk'[d] = {"pc", "auth"}
           /\ clerk'[c].pc = p /\ \A d \in Clerks : d # c => clerk'[d] = clerk[d]
  BY DEF AccountTypes, ClerkGo

LEMMA LeaseTyped ==
    ASSUME AccountTypes, NEW h \in Holders, NEW st \in LeaseStates,
           lease' = [lease EXCEPT ![h] = st]
    PROVE  /\ lease' \in [Holders -> LeaseStates] /\ lease'[h] = st
           /\ \A g \in Holders : g # h => lease'[g] = lease[g]
  BY DEF AccountTypes, LeaseStates

(* A clerk that neither takes nor frees a lease.                             *)
LEMMA ClerkMoves ==
    ASSUME HomeInv, Apart, NEW c \in Clerks, NEW p, ClerkGo(c, p),
           p \in Removing => clerk[c].pc \in Removing,
           UNCHANGED <<lease, bind, late>>, mounted' \subseteq mounted
    PROVE  HomeInv'
<1>1. AccountTypes
  BY DEF HomeInv
<1>2. /\ DOMAIN clerk' = Clerks /\ \A d \in Clerks : DOMAIN clerk'[d] = {"pc", "auth"}
      /\ clerk'[c].pc = p /\ \A d \in Clerks : d # c => clerk'[d] = clerk[d]
  BY <1>1, ClerkGoes
<1>3. AccountTypes'
  BY <1>1, <1>2 DEF AccountTypes
<1>4. ~late /\ clerk'[c].pc \in {"logout", "remove", "disconnect"} => lease'[c] = "live"
  BY <1>2 DEF HomeInv, HolderWorks, Removing
<1>5. QED BY <1>2, <1>3, <1>4, ClerkStep

(* A clerk that frees its own lease or the session's and removes nothing.    *)
LEMMA ClerkFrees ==
    ASSUME HomeInv, Apart, NEW c \in Clerks, NEW p, ClerkGo(c, p), p \notin Removing,
           NEW h \in {c, Session}, Free(h), UNCHANGED <<bind, late>>, mounted' \subseteq mounted
    PROVE  HomeInv'
<1>1. AccountTypes /\ h \in Holders
  BY DEF HomeInv, Holders
<1>2. /\ DOMAIN clerk' = Clerks /\ \A d \in Clerks : DOMAIN clerk'[d] = {"pc", "auth"}
      /\ clerk'[c].pc = p /\ \A d \in Clerks : d # c => clerk'[d] = clerk[d]
  BY <1>1, ClerkGoes
<1>3. /\ lease' \in [Holders -> LeaseStates] /\ lease'[h] = "none"
      /\ \A g \in Holders : g # h => lease'[g] = lease[g]
  BY <1>1, LeaseTyped DEF Free, LeaseStates
<1>4. AccountTypes'
  BY <1>1, <1>2, <1>3 DEF AccountTypes
<1>5. \A g \in Holders : lease'[g] = lease[g] \/ (lease'[g] = "none" /\ g \in {c, Session})
  BY <1>3
<1>6. QED BY <1>2, <1>4, <1>5, ClerkStep DEF Removing

(* A clerk that takes a lease, for itself or for a session, when nobody holds one. *)
LEMMA ClerkTakes ==
    ASSUME HomeInv, Apart, NEW c \in Clerks, NEW p, ClerkGo(c, p), p \notin Removing,
           NEW h \in {c, Session}, Take(h), ~Held, UNCHANGED <<bind, late>>,
           mounted' \subseteq mounted
    PROVE  HomeInv'
<1>1. AccountTypes /\ h \in Holders
  BY DEF HomeInv, Holders
<1>2. /\ DOMAIN clerk' = Clerks /\ \A d \in Clerks : DOMAIN clerk'[d] = {"pc", "auth"}
      /\ clerk'[c].pc = p /\ \A d \in Clerks : d # c => clerk'[d] = clerk[d]
  BY <1>1, ClerkGoes
<1>3. /\ lease' \in [Holders -> LeaseStates] /\ lease'[h] = "live"
      /\ \A g \in Holders : g # h => lease'[g] = lease[g]
  BY <1>1, LeaseTyped DEF Take, LeaseStates
<1>4. AccountTypes'
  BY <1>1, <1>2, <1>3 DEF AccountTypes
<1>5. \E t \in {c, Session} :
         /\ \A g \in Holders : g # t => lease'[g] \notin {"live", "orphan"}
         /\ \A g \in Holders : g \notin {c, Session} => lease'[g] = lease[g]
  BY <1>3 DEF Held
<1>6. QED BY <1>2, <1>4, <1>5, ClerkStep DEF Removing

LEMMA DisconnectKeepsHome ==
    ASSUME HomeInv, Apart, NEW c \in Clerks, Disconnect(c) PROVE HomeInv'
<1> DEFINE rest == IF session.open THEN [lease EXCEPT ![Session] = "none"] ELSE lease
<1>1. AccountTypes /\ Session \in Holders /\ c \in Holders
  BY DEF HomeInv, Holders
<1>2. /\ rest \in [Holders -> LeaseStates]
      /\ \A h \in Holders : rest[h] = lease[h] \/ (rest[h] = "none" /\ h \in {c, Session})
  BY <1>1 DEF AccountTypes, LeaseStates
<1>3. \/ lease' = rest /\ UNCHANGED clerk
      \/ /\ ~ \E h \in Holders : rest[h] \in {"live", "orphan"}
         /\ lease' = [rest EXCEPT ![c] = "live"] /\ ClerkGo(c, "logout")
  BY DEF Disconnect
<1>4. UNCHANGED <<bind, late, mounted>>
  BY DEF Disconnect
<1> HIDE DEF rest
<1>5. CASE lease' = rest /\ UNCHANGED clerk
  <2>1. AccountTypes'
    BY <1>1, <1>2, <1>4, <1>5 DEF AccountTypes
  <2>2. ~late /\ clerk'[c].pc \in {"logout", "remove", "disconnect"} => lease'[c] = "live"
    <3>1. Session # c
      BY DEF Apart
    <3>2. SUFFICES ASSUME ~late, clerk[c].pc \in {"logout", "remove", "disconnect"}
                   PROVE  rest[c] = "live"
      BY <1>5
    <3>3. lease[c] = "live"
      BY <3>2 DEF HomeInv, HolderWorks
    <3>4. QED BY <1>1, <3>1, <3>3 DEF rest, AccountTypes
  <2>3. QED BY <1>2, <1>4, <1>5, <2>1, <2>2, ClerkStep
<1>6. CASE /\ ~ \E h \in Holders : rest[h] \in {"live", "orphan"}
           /\ lease' = [rest EXCEPT ![c] = "live"] /\ ClerkGo(c, "logout")
  <2>1. /\ DOMAIN clerk' = Clerks /\ \A d \in Clerks : DOMAIN clerk'[d] = {"pc", "auth"}
        /\ \A d \in Clerks : d # c => clerk'[d] = clerk[d]
    BY <1>1, <1>6, ClerkGoes
  <2>2. /\ lease' \in [Holders -> LeaseStates] /\ lease'[c] = "live"
        /\ \A h \in Holders : h # c => lease'[h] = rest[h]
    BY <1>1, <1>2, <1>6 DEF LeaseStates
  <2>3. AccountTypes'
    BY <1>1, <1>4, <2>1, <2>2 DEF AccountTypes
  <2>4. \E t \in {c, Session} :
           /\ \A g \in Holders : g # t => lease'[g] \notin {"live", "orphan"}
           /\ \A g \in Holders : g \notin {c, Session} => lease'[g] = lease[g]
    BY <1>2, <1>6, <2>2
  <2>5. QED BY <1>4, <2>1, <2>2, <2>3, <2>4, ClerkStep
<1>7. QED BY <1>3, <1>5, <1>6

LEMMA ClerkKeepsHome == ASSUME HomeInv, Apart, NEW c \in Clerks, Serve(c) PROVE HomeInv'
<1>0. AccountTypes
  BY DEF HomeInv
<1>1. CASE Forget(c)
  BY <1>1 DEF Forget, HomeInv, AccountTypes, OneHolder, Holds, HolderWorks, NothingElseMounted
<1>2. CASE StartLogin(c)
  <2>1. CASE Take(Session) /\ mounted' = NoMounts /\ ClerkGo(c, "connecting")
    BY <1>2, <2>1, ClerkTakes DEF StartLogin, CanLease, NoMounts, Removing
  <2>2. CASE UNCHANGED <<lease, session, child, clerk>>
    <3>1. mounted' \subseteq mounted
      BY <1>2, <2>2 DEF StartLogin, NoMounts
    <3>2. QED BY <1>2, <2>2, <3>1 DEF StartLogin, HomeInv, AccountTypes, OneHolder, Holds, HolderWorks,
                                 NothingElseMounted
  <2>3. QED BY <1>2, <2>1, <2>2 DEF StartLogin
<1>3. CASE Connecting(c)
  BY <1>3, ClerkMoves DEF Connecting, Removing
<1>4. CASE CloseSession(c)
  BY <1>4, ClerkMoves DEF CloseSession, Removing
<1>5. CASE Cancelled(c)
  BY <1>5, ClerkFrees DEF Cancelled, Removing
<1>6. CASE BeginCheck(c)
  <2>1. CASE UNCHANGED lease
    BY <1>6, <2>1, ClerkMoves DEF BeginCheck, Removing
  <2>2. CASE Take(c) /\ ~Held
    BY <1>6, <2>2, ClerkTakes DEF BeginCheck, Removing
  <2>3. QED BY <1>6, <2>1, <2>2 DEF BeginCheck, CanLease
<1>7. CASE Check(c)
  <2>1. CASE ClerkGo(c, "unsafe") /\ UNCHANGED mounted
    BY <1>7, <2>1, ClerkMoves DEF Check, Removing
  <2>2. CASE mounted' = NoMounts /\ clerk' = [clerk EXCEPT ![c] = [pc |-> "write", auth |-> home.signed]]
    <3>1. /\ DOMAIN clerk' = Clerks /\ \A d \in Clerks : DOMAIN clerk'[d] = {"pc", "auth"}
          /\ clerk'[c].pc = "write" /\ \A d \in Clerks : d # c => clerk'[d] = clerk[d]
      BY <1>0, <2>2 DEF AccountTypes
    <3>2. UNCHANGED <<lease, bind, late>> /\ mounted' \subseteq mounted
      BY <1>7, <2>2 DEF Check, NoMounts
    <3>3. AccountTypes'
      BY <1>0, <3>1, <3>2 DEF AccountTypes
    <3>4. QED BY <3>1, <3>2, <3>3, ClerkStep
  <2>3. QED BY <1>7, <2>1, <2>2 DEF Check
<1>8. CASE Verdict(c)
  <2>1. \E p \in {"unsafe", "checked"} : ClerkGo(c, p)
    BY <1>8 DEF Verdict
  <2>2. QED BY <1>8, <2>1, ClerkMoves DEF Verdict, Removing
<1>9. CASE Unsafe(c)
  BY <1>9, ClerkMoves DEF Unsafe, Removing
<1>10. CASE EndCheck(c)
  <2>1. CASE UNCHANGED lease
    BY <1>10, <2>1, ClerkMoves DEF EndCheck, Removing
  <2>2. CASE Free(Session) \/ Free(c)
    BY <1>10, <2>2, ClerkFrees DEF EndCheck, Removing
  <2>3. QED BY <1>10, <2>1, <2>2 DEF EndCheck
<1>11. CASE Disconnect(c)
  BY <1>11, DisconnectKeepsHome
<1>12. CASE Logout(c)
  BY <1>12, ClerkMoves DEF Logout, Removing, ClerkAt, NoMounts
<1>13. CASE RemoveHome(c)
  BY <1>13, ClerkMoves DEF RemoveHome, Removing, ClerkAt
<1>14. CASE Disconnected(c)
  <2>1. /\ DOMAIN clerk' = Clerks /\ \A d \in Clerks : DOMAIN clerk'[d] = {"pc", "auth"}
        /\ clerk'[c].pc = "idle" /\ \A d \in Clerks : d # c => clerk'[d] = clerk[d]
    BY <1>0, <1>14, ClerkGoes DEF Disconnected
  <2>2. /\ lease' \in [Holders -> LeaseStates] /\ \A h \in Holders : lease'[h] = "none"
    BY <1>14 DEF Disconnected, LeaseStates
  <2>3. AccountTypes' /\ UNCHANGED <<bind, late, mounted>>
    BY <1>0, <1>14, <2>1, <2>2 DEF AccountTypes, Disconnected
  <2>4. ~late => lease[c] = "live"
    BY <1>14 DEF Disconnected, ClerkAt, HomeInv, HolderWorks
  <2>5. QED BY <2>1, <2>2, <2>3, <2>4, ClerkStep
<1>15. CASE DisconnectFails(c)
  BY <1>15, ClerkFrees DEF DisconnectFails, Removing
<1>16. QED
  BY <1>1, <1>2, <1>3, <1>4, <1>5, <1>6, <1>7, <1>8, <1>9, <1>10, <1>11, <1>12, <1>13, <1>14, <1>15
     DEF Serve

LEMMA AccountsRestartKeepsHome == ASSUME HomeInv, Restart PROVE HomeInv'
<1>1. /\ bind' = [f \in Flows |-> NoBind]
      /\ clerk' = [c \in Clerks |-> [pc |-> "idle", auth |-> FALSE]]
      /\ mounted' \subseteq mounted /\ UNCHANGED late
      /\ DOMAIN lease' = Holders
      /\ \A h \in Holders : lease'[h] \in {"none", "orphan", lease[h]}
                            /\ (lease[h] = "none" => lease'[h] = "none")
                            /\ (lease[h] = "live" => lease'[h] # "live")
  BY DEF Restart
<1>2. lease' \in [Holders -> LeaseStates]
  <2>1. lease' = [h \in Holders |-> lease'[h]]
    BY DEF Restart
  <2>2. \A h \in Holders : lease'[h] \in LeaseStates
    BY <1>1 DEF HomeInv, AccountTypes, LeaseStates
  <2>3. QED BY <2>1, <2>2
<1>3. AccountTypes'
  BY <1>1, <1>2 DEF AccountTypes, BindRow, NoBind
<1>4. \A h \in Holders : Holds(h)' => Holds(h)
  <2>1. SUFFICES ASSUME NEW h \in Holders, lease'[h] \in {"live", "orphan"}
                 PROVE  lease[h] \in {"live", "orphan"}
    BY DEF Holds
  <2>2. lease'[h] = IF (h \in Flows \ Missions /\ lease[h] # "none") \/ lease[h] = "none" THEN "none"
                    ELSE IF lease[h] = "live" THEN "orphan" ELSE lease[h]
    BY DEF Restart, Holders
  <2>3. QED BY <2>1, <2>2
<1>5. OneHolder'
  BY <1>4 DEF HomeInv, OneHolder
<1>6. ASSUME ~late' PROVE HolderWorks' /\ NothingElseMounted'
  BY <1>1, <1>6 DEF HomeInv, HolderWorks, NothingElseMounted, NoBind
<1>7. QED BY <1>3, <1>5, <1>6 DEF HomeInv

LEMMA ExpireKeepsHome == ASSUME HomeInv, NEW h \in Holders, Expire(h) PROVE HomeInv'
<1>1. /\ lease' \in [Holders -> LeaseStates] /\ lease'[h] = "expired"
      /\ \A g \in Holders : g # h => lease'[g] = lease[g]
  BY LeaseTyped DEF Expire, HomeInv, LeaseStates
<1>2. UNCHANGED <<bind, clerk, mounted>>
  BY DEF Expire
<1>3. AccountTypes'
  BY <1>1, <1>2 DEF HomeInv, AccountTypes
<1>4. OneHolder'
  BY <1>1 DEF HomeInv, OneHolder, Holds
<1>5. ASSUME ~late' PROVE HolderWorks' /\ NothingElseMounted'
  <2>1. lease[h] = "orphan" /\ ~late
    BY <1>5 DEF Expire
  <2>2. HolderWorks /\ NothingElseMounted
    BY <2>1 DEF HomeInv
  <2>3. \A g \in Flows : lease[g] = "live" => g \in Holders /\ lease'[g] = "live"
    BY <1>1, <2>1 DEF Holders
  <2>4. \A c \in Clerks : lease[c] = "live" => c \in Holders /\ lease'[c] = "live"
    BY <1>1, <2>1 DEF Holders
  <2>5. QED BY <1>2, <2>2, <2>3, <2>4 DEF HolderWorks, NothingElseMounted
<1>6. QED BY <1>3, <1>4, <1>5 DEF HomeInv

LEMMA HomeStep == ASSUME HomeInv, Apart, [AccountsNext]_acctVars PROVE HomeInv'
<1> DEFINE Same == UNCHANGED <<bind, clerk, lease, mounted, late>>
<1>1. CASE Same
  BY <1>1 DEF HomeInv, AccountTypes, OneHolder, Holds, HolderWorks, NothingElseMounted
<1>2. ASSUME NEW w \in Workers, CreateRun(w) \/ ClaimRun(w) \/ StartRun(w) PROVE Same
  BY <1>2 DEF CreateRun, ClaimRun, StartRun
<1>3. ChildEnds \/ LoseLogin \/ UNCHANGED acctVars => Same
  BY DEF ChildEnds, LoseLogin, acctVars
<1> HIDE DEF Same
<1>4. QED
  BY <1>1, <1>2, <1>3, FlowKeepsHome, ClerkKeepsHome, AccountsRestartKeepsHome, ExpireKeepsHome
     DEF AccountsNext

LEMMA HomeMeansOneMount == ASSUME HomeInv PROVE OneMount
<1>1. SUFFICES ASSUME ~late PROVE Cardinality(mounted) <= 1
  BY DEF OneMount
<1>2. \A v, w \in mounted : v = w
  BY <1>1 DEF HomeInv, NothingElseMounted
<1>3. CASE mounted = {}
  BY <1>3, FS_EmptySet
<1>4. CASE mounted # {}
  <2>1. PICK w \in mounted : TRUE
    BY <1>4
  <2>2. mounted = {w}
    BY <1>2, <2>1
  <2>3. Cardinality({w}) = 1
    BY FS_Singleton
  <2>4. QED BY <2>2, <2>3
<1>5. QED BY <1>3, <1>4

-----------------------------------------------------------------------------
(* ProviderAccounts: a mission is given to a harness at most once.           *)

\* A flow is a worker and what it does there.
Paired == \A f, g \in Missions : f[1] = g[1] => f = g

Undispatched == {"acquire", "reconcile", "bound", "ready", "fallback", "issue"}
GivenInv ==
    /\ AccountTypes
    /\ DOMAIN runs = Workers
    /\ \A w \in Workers : DOMAIN runs[w] = {"st", "given"} /\ runs[w].given \in {0, 1}
    /\ \A f \in Missions : bind[f].pc \in Undispatched => runs[f[1]].given = 0
    /\ \A f \in Flows : bind[f].pc \in {"fallback", "issue", "brokered"} => f \in Missions

(* A step that gives nothing out: the flow goes where nothing was given yet, or is over. *)
LEMMA NothingGiven ==
    ASSUME GivenInv, AccountTypes', DOMAIN runs' = Workers,
           \A w \in Workers : DOMAIN runs'[w] = {"st", "given"} /\ runs'[w].given = runs[w].given,
           \A f \in Flows : \/ bind'[f].pc = bind[f].pc
                            \/ bind'[f].pc \notin Undispatched \cup {"brokered"}
                            \/ /\ bind[f].pc \in Undispatched \/ (f \in Missions => runs[f[1]].given = 0)
                               /\ bind'[f].pc \in {"fallback", "issue", "brokered"} => f \in Missions
    PROVE  GivenInv'
<1>1. \A f \in Missions : f \in Flows /\ f[1] \in Workers
  BY DEF Missions, Workers
<1>2. \A f \in Missions : bind'[f].pc \in Undispatched => runs'[f[1]].given = 0
  BY <1>1 DEF GivenInv, Undispatched
<1>3. \A f \in Flows : bind'[f].pc \in {"fallback", "issue", "brokered"} => f \in Missions
  BY DEF GivenInv, Undispatched
<1>4. QED BY <1>2, <1>3 DEF GivenInv

(* A mission that nothing was given of is given out, and moves on.           *)
LEMMA MissionGiven ==
    ASSUME GivenInv, Paired, AccountTypes', NEW f \in Missions, runs[f[1]].given = 0,
           runs' = GivenRun(f), bind'[f].pc \notin Undispatched,
           \A g \in Flows : g # f => bind'[g] = bind[g]
    PROVE  GivenInv'
<1>1. \A g \in Missions : g \in Flows /\ g[1] \in Workers
  BY DEF Missions, Workers
<1>2. /\ DOMAIN runs' = Workers /\ \A w \in Workers : DOMAIN runs'[w] = {"st", "given"}
      /\ runs'[f[1]].given = 1 /\ \A w \in Workers : w # f[1] => runs'[w] = runs[w]
  BY <1>1 DEF GivenInv, GivenRun
<1>3. \A w \in Workers : runs'[w].given \in {0, 1}
  BY <1>2 DEF GivenInv
<1>4. \A g \in Missions : bind'[g].pc \in Undispatched => runs'[g[1]].given = 0
  BY <1>1, <1>2 DEF GivenInv, Paired
<1>5. \A g \in Flows : bind'[g].pc \in {"fallback", "issue", "brokered"} => g \in Missions
  BY DEF GivenInv
<1>6. QED BY <1>2, <1>3, <1>4, <1>5 DEF GivenInv

LEMMA RunsOver ==
    ASSUME GivenInv, NEW f \in Flows
    PROVE  /\ DOMAIN OverRun(f) = Workers
           /\ \A w \in Workers : DOMAIN OverRun(f)[w] = {"st", "given"}
                                 /\ OverRun(f)[w].given = runs[w].given
  BY DEF GivenInv, OverRun

(* Where the step of one flow leaves that flow, the others and the runs.     *)
LEMMA FlowBecomes ==
    ASSUME AccountTypes, NEW f \in Flows, NEW p, Go(f, p)
    PROVE  bind'[f].pc = p /\ \A g \in Flows : g # f => bind'[g] = bind[g]
  BY DEF AccountTypes, Go, BindRow

LEMMA FlowResets ==
    ASSUME AccountTypes, NEW f \in Flows, bind' = [bind EXCEPT ![f] = NoBind]
    PROVE  bind'[f].pc = "idle" /\ \A g \in Flows : g # f => bind'[g] = bind[g]
  BY DEF AccountTypes, NoBind

(* A flow moves on or is over and no mission is given out; moving on to what gives a mission
   out presupposes that it was not given yet. *)
LEMMA FlowGivesNothing ==
    ASSUME GivenInv, AccountTypes', NEW f \in Flows, UNCHANGED runs \/ runs' = OverRun(f),
           \/ bind' = [bind EXCEPT ![f] = NoBind]
           \/ UNCHANGED bind
           \/ \E p : /\ Go(f, p)
                     /\ \/ p \notin Undispatched \cup {"brokered"}
                        \/ /\ bind[f].pc \in Undispatched \/ (f \in Missions => runs[f[1]].given = 0)
                           /\ p \in {"fallback", "issue"} => f \in Missions
                           /\ p # "brokered"
    PROVE  GivenInv'
<1>1. AccountTypes
  BY DEF GivenInv
<1>2. /\ DOMAIN runs' = Workers
      /\ \A w \in Workers : DOMAIN runs'[w] = {"st", "given"} /\ runs'[w].given = runs[w].given
  BY RunsOver DEF GivenInv
<1>3. CASE bind' = [bind EXCEPT ![f] = NoBind]
  <2>1. bind'[f].pc = "idle" /\ \A g \in Flows : g # f => bind'[g] = bind[g]
    BY <1>1, <1>3, FlowResets
  <2>2. "idle" \notin Undispatched \cup {"brokered"}
    BY DEF Undispatched
  <2>3. QED BY <1>2, <2>1, <2>2, NothingGiven
<1>4. CASE UNCHANGED bind
  BY <1>2, <1>4, NothingGiven
<1>5. CASE \E p : /\ Go(f, p)
                  /\ \/ p \notin Undispatched \cup {"brokered"}
                     \/ /\ bind[f].pc \in Undispatched \/ (f \in Missions => runs[f[1]].given = 0)
                        /\ p \in {"fallback", "issue"} => f \in Missions
                        /\ p # "brokered"
  <2>1. PICK p : /\ Go(f, p)
                 /\ \/ p \notin Undispatched \cup {"brokered"}
                    \/ /\ bind[f].pc \in Undispatched \/ (f \in Missions => runs[f[1]].given = 0)
                       /\ p \in {"fallback", "issue"} => f \in Missions
                       /\ p # "brokered"
    BY <1>5
  <2>2. bind'[f].pc = p /\ \A g \in Flows : g # f => bind'[g] = bind[g]
    BY <1>1, <2>1, FlowBecomes
  <2>3. QED BY <1>2, <2>1, <2>2, NothingGiven
<1>6. QED BY <1>3, <1>4, <1>5

LEMMA GivingUpGivesNothing ==
    ASSUME GivenInv, AccountTypes', NEW f \in Flows, GiveUp(f),
           f \in Missions => runs[f[1]].given = 0
    PROVE  GivenInv'
  BY FlowGivesNothing DEF GiveUp

\* The flow gives its mission out: it was not given yet, and moves to a place after that.
LEMMA FlowGives ==
    ASSUME GivenInv, Paired, AccountTypes', NEW f \in Missions, runs[f[1]].given = 0,
           runs' = GivenRun(f), NEW p, Go(f, p), p \notin Undispatched
    PROVE  GivenInv'
<1>1. f \in Flows /\ AccountTypes
  BY DEF Missions, GivenInv
<1>2. bind'[f].pc = p /\ \A g \in Flows : g # f => bind'[g] = bind[g]
  BY <1>1, FlowBecomes
<1>3. QED BY <1>2, MissionGiven

LEMMA FlowKeepsGiven ==
    ASSUME GivenInv, Paired, AccountTypes', NEW f \in Flows, Bind(f)
    PROVE  GivenInv'
<1>1. CASE ReserveRoute(f)
  <2>1. f \in Missions => runs[f[1]].given = 0
    BY <1>1 DEF ReserveRoute, MayBegin
  <2>2. CASE GiveUp(f)
    BY <2>1, <2>2, GivingUpGivesNothing
  <2>3. CASE ~GiveUp(f)
    <3>1. "acquire" \notin {"fallback", "issue", "brokered"}
      OBVIOUS
    <3>2. \/ bind' = [bind EXCEPT ![f] = NoBind] /\ runs' = OverRun(f)
          \/ Go(f, "acquire") /\ UNCHANGED runs
      BY <1>1, <2>3 DEF ReserveRoute
    <3>3. QED BY <2>1, <3>1, <3>2, FlowGivesNothing
  <2>4. QED BY <2>2, <2>3
<1>2. CASE Acquire(f)
  <2>1. f \in Missions => runs[f[1]].given = 0
    BY <1>2 DEF Acquire, BindAt, GivenInv, Undispatched
  <2>2. CASE GiveUp(f)
    BY <2>1, <2>2, GivingUpGivesNothing
  <2>3. CASE ~GiveUp(f)
    <3>1. Go(f, "reconcile") /\ UNCHANGED runs
      BY <1>2, <2>3 DEF Acquire
    <3>2. QED BY <2>1, <3>1, FlowGivesNothing
  <2>4. QED BY <2>2, <2>3
<1>3. CASE Prepare(f)
  <2>1. CASE UNCHANGED runs /\ bind' = [bind EXCEPT ![f] = [pc |-> "bound", beat |-> "on", released |-> FALSE]]
    <3>1. bind'[f].pc = "bound" /\ \A g \in Flows : g # f => bind'[g] = bind[g]
      BY <2>1 DEF GivenInv, AccountTypes, BindRow
    <3>2. bind[f].pc \in Undispatched
      BY <1>3 DEF Prepare, BindAt, Undispatched
    <3>3. /\ DOMAIN runs' = Workers
          /\ \A w \in Workers : DOMAIN runs'[w] = {"st", "given"} /\ runs'[w].given = runs[w].given
      BY <2>1 DEF GivenInv
    <3>4. QED BY <3>1, <3>2, <3>3, NothingGiven
  <2>2. CASE bind' = [bind EXCEPT ![f] = NoBind] /\ runs' = OverRun(f)
    BY <2>2, FlowGivesNothing
  <2>3. QED BY <1>3, <2>1, <2>2 DEF Prepare
<1>4. CASE EnsureReady(f)
  <2>1. bind[f].pc \in Undispatched /\ Go(f, "ready") /\ UNCHANGED runs
    BY <1>4 DEF EnsureReady, BindAt, Undispatched
  <2>2. QED BY <2>1, FlowGivesNothing
<1>5. CASE StartTask(f)
  <2>1. "task" \notin Undispatched \cup {"brokered"} /\ "close" \notin Undispatched \cup {"brokered"}
    BY DEF Undispatched
  <2>2. CASE f \in Missions /\ runs' = GivenRun(f) /\ Go(f, "task")
    <3>1. runs[f[1]].given = 0
      BY <1>5, <2>2 DEF StartTask, BindAt, GivenInv, Undispatched
    <3>2. QED BY <2>1, <2>2, <3>1, FlowGives
  <2>3. CASE UNCHANGED runs /\ \E p \in {"task", "close"} : Go(f, p)
    BY <2>1, <2>3, FlowGivesNothing
  <2>4. QED BY <1>5, <2>2, <2>3 DEF StartTask
<1>6. CASE EndTask(f) \/ BeginClose(f)
  <2>1. "close" \notin Undispatched \cup {"brokered"} /\ "release" \notin Undispatched \cup {"brokered"}
    BY DEF Undispatched
  <2>2. UNCHANGED runs /\ \E p \in {"close", "release"} : Go(f, p)
    BY <1>6 DEF EndTask, BeginClose
  <2>3. QED BY <2>1, <2>2, FlowGivesNothing
<1>7. CASE ReleaseBinding(f)
  <2>1. bind'[f].pc = "unlease" /\ \A g \in Flows : g # f => bind'[g] = bind[g]
    BY <1>7 DEF ReleaseBinding, Go, GivenInv, AccountTypes, BindRow
  <2>2. /\ DOMAIN runs' = Workers
        /\ \A w \in Workers : DOMAIN runs'[w] = {"st", "given"} /\ runs'[w].given = runs[w].given
    BY <1>7 DEF ReleaseBinding, GivenInv
  <2>3. QED BY <2>1, <2>2, NothingGiven DEF Undispatched
<1>8. CASE Unlease(f)
  BY <1>8, FlowGivesNothing DEF Unlease
<1>9. CASE LoseLease(f) \/ Abort(f)
  <2>1. \A g \in Flows : bind'[g].pc = bind[g].pc
    BY <1>9 DEF LoseLease, Abort, GivenInv, AccountTypes, BindRow
  <2>2. /\ DOMAIN runs' = Workers
        /\ \A w \in Workers : DOMAIN runs'[w] = {"st", "given"} /\ runs'[w].given = runs[w].given
    BY <1>9 DEF LoseLease, Abort, GivenInv
  <2>3. QED BY <2>1, <2>2, NothingGiven
<1>10. CASE Borrow(f) \/ GiveBack(f)
  BY <1>10, FlowGivesNothing DEF Borrow, GiveBack
<1>11. CASE Fallback(f)
  <2>1. CASE bind' = [bind EXCEPT ![f] = NoBind] /\ runs' = OverRun(f)
    BY <2>1, FlowGivesNothing
  <2>2. CASE runs' = GivenRun(f) /\ Go(f, "unbound")
    <3>1. f \in Missions /\ runs[f[1]].given = 0
      BY <1>11 DEF Fallback, BindAt, GivenInv, Undispatched
    <3>2. QED BY <2>2, <3>1, FlowGives DEF Undispatched
  <2>3. QED BY <1>11, <2>1, <2>2 DEF Fallback
<1>12. CASE Brokered(f)
  <2>1. f \in Missions /\ runs[f[1]].given = 0
    BY <1>12 DEF Brokered, MayBegin
  <2>2. CASE GiveUp(f)
    BY <2>1, <2>2, GivingUpGivesNothing
  <2>3. CASE Go(f, "issue") /\ UNCHANGED runs
    BY <2>1, <2>3, FlowGivesNothing
  <2>4. QED BY <1>12, <2>2, <2>3 DEF Brokered
<1>13. CASE Issue(f)
  <2>1. f \in Missions /\ runs[f[1]].given = 0
    BY <1>13 DEF Issue, BindAt, GivenInv, Undispatched
  <2>2. "brokered" \notin Undispatched /\ "unbound" \notin Undispatched \cup {"brokered"}
    BY DEF Undispatched
  <2>3. CASE runs' = GivenRun(f) /\ \E p \in {"brokered", "unbound"} : Go(f, p)
    BY <2>1, <2>2, <2>3, FlowGives
  <2>4. CASE UNCHANGED runs /\ Go(f, "unbound")
    BY <2>2, <2>4, FlowGivesNothing
  <2>5. QED BY <1>13, <2>3, <2>4 DEF Issue
<1>14. CASE EndBrokered(f)
  <2>1. f \in Missions
    BY <1>14 DEF EndBrokered, BindAt, GivenInv
  <2>2. "unbound" \notin Undispatched \cup {"brokered"}
    BY DEF Undispatched
  <2>3. CASE UNCHANGED runs
    BY <1>14, <2>2, <2>3, FlowGivesNothing DEF EndBrokered
  <2>4. CASE MayFallBack(f) /\ runs' = GivenRun(f)
    BY <1>14, <2>1, <2>2, <2>4, FlowGives DEF EndBrokered, MayFallBack
  <2>5. QED BY <1>14, <2>3, <2>4 DEF EndBrokered
<1>15. CASE CloseUnbound(f)
  BY <1>15, FlowGivesNothing DEF CloseUnbound
<1>16. QED
  BY <1>1, <1>2, <1>3, <1>4, <1>5, <1>6, <1>7, <1>8, <1>9, <1>10, <1>11, <1>12, <1>13, <1>14,
     <1>15 DEF Bind

LEMMA GivenStep ==
    ASSUME GivenInv, Paired, AccountTypes', [AccountsNext]_acctVars PROVE GivenInv'
<1> DEFINE Quiet == UNCHANGED <<bind, runs>>
<1>1. CASE Quiet
  BY <1>1, NothingGiven DEF GivenInv
<1>2. ASSUME NEW w \in Workers, CreateRun(w) \/ ClaimRun(w) \/ StartRun(w) PROVE GivenInv'
  <2>1. UNCHANGED bind /\ \E st \in {"queued", "claimed", "running"} : runs' = [runs EXCEPT ![w].st = st]
    BY <1>2 DEF CreateRun, ClaimRun, StartRun
  <2>2. /\ DOMAIN runs' = Workers
        /\ \A v \in Workers : DOMAIN runs'[v] = {"st", "given"} /\ runs'[v].given = runs[v].given
    BY <2>1 DEF GivenInv
  <2>3. QED BY <2>1, <2>2, NothingGiven
<1>3. ASSUME NEW c \in Clerks, Serve(c) PROVE Quiet
  BY <1>3 DEF Serve, Forget, StartLogin, Connecting, CloseSession, Cancelled, BeginCheck, Check,
              Verdict, Unsafe, EndCheck, Disconnect, Logout, RemoveHome, Disconnected,
              DisconnectFails
<1>4. ASSUME Restart PROVE GivenInv'
  <2>1. /\ bind' = [f \in Flows |-> NoBind]
        /\ runs' = [w \in Workers |-> [runs[w] EXCEPT !.st = IF @ = "queued" THEN @ ELSE "none"]]
    BY <1>4 DEF Restart
  <2>2. /\ DOMAIN runs' = Workers
        /\ \A w \in Workers : DOMAIN runs'[w] = {"st", "given"} /\ runs'[w].given = runs[w].given
    BY <2>1 DEF GivenInv
  <2>3. \A f \in Flows : bind'[f].pc \notin Undispatched \cup {"brokered"}
    BY <2>1 DEF NoBind, Undispatched
  <2>4. QED BY <2>2, <2>3, NothingGiven
<1>5. ChildEnds \/ LoseLogin \/ UNCHANGED acctVars \/ (\E h \in Holders : Expire(h)) => Quiet
  BY DEF ChildEnds, LoseLogin, Expire, acctVars
<1> HIDE DEF Quiet
<1>6. QED BY <1>1, <1>2, <1>3, <1>4, <1>5, FlowKeepsGiven DEF AccountsNext

\* With heartbeats in time, one container at most mounts the home of an account, and a mission is
\* given to a harness at most once: for any workers, threads and numbers of faults.
THEOREM AccountIsUsedOnce == AccountsSpec => []AccountUsedOnce
<1>0. Apart /\ Paired
  BY AccountsAssumption DEF Apart, Paired, Missions
<1>1. AccountsInit => HomeInv /\ GivenInv
  <2>1. ASSUME AccountsInit PROVE GivenInv
    <3>1. AccountTypes
      BY <2>1, HomeStarts DEF HomeInv
    <3>2. /\ DOMAIN runs = Workers
          /\ \A w \in Workers : DOMAIN runs[w] = {"st", "given"} /\ runs[w].given = 0
      BY <2>1 DEF AccountsInit, NoRun
    <3>3. \A f \in Flows : bind[f].pc = "idle"
      BY <2>1 DEF AccountsInit, NoBind
    <3>4. Missions \subseteq Flows
      BY DEF Missions
    <3>5. QED BY <3>1, <3>2, <3>3, <3>4 DEF GivenInv, Undispatched
  <2>2. QED BY <2>1, HomeStarts
<1>2. HomeInv /\ GivenInv /\ [AccountsNext]_acctVars => (HomeInv /\ GivenInv)'
  <2>1. HomeInv' => AccountTypes'
    BY DEF HomeInv
  <2>2. QED BY <1>0, <2>1, HomeStep, GivenStep
<1>3. HomeInv /\ GivenInv => AccountUsedOnce
  <2>1. GivenInv => MissionOnce
    BY DEF GivenInv, MissionOnce
  <2>2. QED BY <2>1, HomeMeansOneMount DEF AccountUsedOnce
<1>4. QED BY <1>1, <1>2, <1>3, PTL DEF AccountsSpec

-----------------------------------------------------------------------------
(* ActiveWork: the shape of rows, and what is known of numbers of operations. *)

RunsShaped == DOMAIN run = Runs /\ \A r \in Runs : DOMAIN run[r] = {"st", "at"}
WorkerShaped == DOMAIN worker = {"st", "stop", "outcome"}
UsesShaped ==
    /\ DOMAIN use = Keys
    /\ \A k \in Keys : /\ DOMAIN use[k] = {"st", "source", "op", "exec", "live", "resp"}
                       /\ use[k].op \in Nat
CallsShaped ==
    /\ DOMAIN call = Executors
    /\ \A e \in Executors : /\ DOMAIN call[e] = {"pc", "key", "run", "cur", "st", "res", "adv"}
                            /\ call[e].pc # "idle" => call[e].key \in Keys
ClaimShaped ==
    /\ DOMAIN claim = {"op", "act", "target", "repl", "from", "expired"}
    /\ claim.op \in Nat /\ lastOp \in Nat
WorkShaped ==
    RunsShaped /\ WorkerShaped /\ UsesShaped /\ CallsShaped /\ ClaimShaped /\ DOMAIN effects = Keys

\* A process that took the claim holds the lock until the claim is finalised or given up, and
\* the claim is still there.
AtClaim == {"claimed", "cancelling"}
ClaimStands == \A e \in Executors : call[e].pc \in AtClaim => lock = e /\ claim.op # 0

\* The tombstone of a stop: it is there once the stop has an outcome, no other control is claimed
\* beside it, and a stop that is being carried out has no outcome yet.
StopStands ==
    /\ worker.outcome # "" => worker.stop # 0
    /\ claim.op = 0 => claim.act = ""
    /\ claim.op # 0 /\ claim.act # "stop" => worker.stop = 0
    /\ claim.op # 0 /\ claim.act = "stop" => worker.outcome = "" /\ worker.stop # 0

WorkInv == WorkShaped /\ ClaimStands /\ StopStands /\ WorkStoppedIsEmpty

-----------------------------------------------------------------------------
LEMMA WorkStarts == ASSUME AwInit PROVE WorkInv
<1>1. RunsShaped /\ WorkerShaped /\ worker.stop = 0 /\ worker.outcome = ""
  <2>1. PICK s \in FirstStates :
         /\ run = [r \in Runs |-> IF r = 0 THEN [st |-> s, at |-> 1] ELSE [st |-> "none", at |-> 0]]
         /\ worker = [st |-> IF s = "paused" THEN "paused" ELSE "ready", stop |-> 0,
                      outcome |-> ""]
    BY DEF AwInit
  <2>2. \A r \in Runs : DOMAIN run[r] = {"st", "at"}
    BY <2>1
  <2>3. QED BY <2>1, <2>2 DEF RunsShaped, WorkerShaped
<1>3. UsesShaped
  BY DEF AwInit, UsesShaped, NoUse
<1>4. CallsShaped /\ \A e \in Executors : call[e].pc = "idle"
  BY DEF AwInit, CallsShaped, NoCall
<1>5. ClaimShaped /\ claim.op = 0 /\ claim.act = ""
  BY DEF AwInit, ClaimShaped, NoClaim
<1>6. DOMAIN effects = Keys
  BY DEF AwInit
<1>7. ClaimStands
  BY <1>4 DEF ClaimStands, AtClaim
<1>8. StopStands /\ WorkStoppedIsEmpty
  BY <1>1, <1>5 DEF StopStands, WorkStoppedIsEmpty
<1>9. QED BY <1>1, <1>3, <1>4, <1>5, <1>6, <1>7, <1>8 DEF WorkInv, WorkShaped

(* Where a request goes: the calls keep their shape, and this one is not at a claim. *)
Elsewhere(e) ==
    CallsShaped' /\ call'[e].pc \notin AtClaim /\ \A d \in Executors : d # e => call'[d] = call[d]

LEMMA RequestsMove ==
    ASSUME CallsShaped, NEW e \in Executors
    PROVE  /\ \A p : Goto(e, p) /\ call[e].pc # "idle"
                       => /\ CallsShaped' /\ call'[e].pc = p
                          /\ \A d \in Executors : d # e => call'[d] = call[d]
           /\ Reply(e) => Elsewhere(e)
           /\ \A r, res, adv : Answer(e, r, res, adv) /\ call[e].pc # "idle" => Elsewhere(e)
<1>1. ASSUME NEW p, Goto(e, p), call[e].pc # "idle"
      PROVE  CallsShaped' /\ call'[e].pc = p /\ \A d \in Executors : d # e => call'[d] = call[d]
  BY <1>1 DEF Goto, CallsShaped, NoCall
<1>2. ASSUME Reply(e) PROVE Elsewhere(e)
  BY <1>2 DEF Reply, Elsewhere, CallsShaped, NoCall, AtClaim
<1>3. ASSUME NEW r, NEW res, NEW adv, Answer(e, r, res, adv), call[e].pc # "idle" PROVE Elsewhere(e)
  BY <1>3 DEF Answer, Elsewhere, CallsShaped, NoCall, AtClaim
<1>4. QED BY <1>1, <1>2, <1>3

\* The claim stands for whoever still is at it.
LEMMA ClaimKept ==
    ASSUME ClaimStands, NEW e \in Executors, Elsewhere(e),
           lock \in {"", e} \/ (lock' = lock /\ (claim.op # 0 => claim'.op # 0))
    PROVE  ClaimStands'
<1>1. SUFFICES ASSUME NEW d \in Executors, call'[d].pc \in AtClaim PROVE lock' = d /\ claim'.op # 0
  BY DEF ClaimStands
<1>2. d # e /\ call[d].pc \in AtClaim
  BY <1>1 DEF Elsewhere
<1>3. lock = d /\ claim.op # 0
  BY <1>2 DEF ClaimStands
<1>4. lock \notin {"", e}
  BY <1>2, <1>3, ExecutorsAssumption
<1>5. QED BY <1>3, <1>4

\* Receipts are only changed row by row.
LEMMA UseChanged ==
    ASSUME UsesShaped, NEW k
    PROVE  /\ \A st : use' = [use EXCEPT ![k].st = st] => UsesShaped'
           /\ \A st, x : use' = [use EXCEPT ![k].st = st, ![k].live = x] => UsesShaped'
           /\ \A st, x : use' = [use EXCEPT ![k].st = st, ![k].resp = x] => UsesShaped'
           /\ \A x : use' = [use EXCEPT ![k].live = x] => UsesShaped'
           /\ \A st, x : use' = [use EXCEPT ![k].st = st, ![k].exec = x, ![k].live = TRUE] => UsesShaped'
           /\ \A op \in Nat : use' = [use EXCEPT ![k].op = op] => UsesShaped'
<1>1. ASSUME NEW st, use' = [use EXCEPT ![k].st = st] PROVE UsesShaped'
  BY <1>1 DEF UsesShaped
<1>2. ASSUME NEW st, NEW x, use' = [use EXCEPT ![k].st = st, ![k].live = x] PROVE UsesShaped'
  BY <1>2 DEF UsesShaped
<1>3. ASSUME NEW st, NEW x, use' = [use EXCEPT ![k].st = st, ![k].resp = x] PROVE UsesShaped'
  BY <1>3 DEF UsesShaped
<1>4. ASSUME NEW x, use' = [use EXCEPT ![k].live = x] PROVE UsesShaped'
  BY <1>4 DEF UsesShaped
<1>5. ASSUME NEW st, NEW x, use' = [use EXCEPT ![k].st = st, ![k].exec = x, ![k].live = TRUE]
      PROVE  UsesShaped'
  BY <1>5 DEF UsesShaped
<1>6. ASSUME NEW op \in Nat, use' = [use EXCEPT ![k].op = op] PROVE UsesShaped'
  BY <1>6 DEF UsesShaped
<1>7. QED BY <1>1, <1>2, <1>3, <1>4, <1>5, <1>6

\* A step of a request that leaves the runs, the worker and the claim alone.
LEMMA WorkRests ==
    ASSUME WorkInv, NEW e \in Executors, Elsewhere(e), UNCHANGED <<run, worker, claim>>,
           lastOp' \in Nat, DOMAIN effects' = Keys, UsesShaped',
           lock' = lock \/ lock = e
    PROVE  WorkInv'
<1>1. ClaimStands'
  BY ClaimKept DEF WorkInv
<1>2. CallsShaped'
  BY DEF Elsewhere
<1>3. QED BY <1>1, <1>2 DEF WorkInv, WorkShaped, RunsShaped, WorkerShaped, ClaimShaped, StopStands,
                            WorkStoppedIsEmpty, InState

LEMMA StartingRests ==
    ASSUME WorkInv, NEW e \in Executors, NEW k \in Keys, Begin(e, k) \/ ReserveCancel(e, k)
    PROVE  WorkInv'
<1>0. WorkShaped
  BY DEF WorkInv
<1>1. CASE Begin(e, k)
  <2>1. Elsewhere(e)
    BY <1>0, <1>1 DEF Begin, Elsewhere, WorkShaped, CallsShaped, NoCall, AtClaim
  <2>2. UNCHANGED <<run, worker, claim, lastOp, effects, use, lock>>
    BY <1>1 DEF Begin, ledger
  <2>3. UsesShaped'
    BY <1>0, <2>2 DEF WorkShaped, UsesShaped
  <2>4. QED BY <1>0, <2>1, <2>2, <2>3, WorkRests DEF WorkShaped, ClaimShaped
<1>2. CASE ReserveCancel(e, k)
  <2>1. Elsewhere(e)
    BY <1>0, <1>2 DEF ReserveCancel, Elsewhere, WorkShaped, CallsShaped, NoCall, AtClaim, At
  <2>2. UNCHANGED <<run, worker, claim, lastOp, effects, lock>>
    BY <1>2 DEF ReserveCancel, ledger
  <2>3. UsesShaped'
    <3>1. \/ use' = [use EXCEPT ![k].st = "executing", ![k].live = TRUE]
          \/ use' = [use EXCEPT ![k].st = "conflict"]
          \/ use' = [use EXCEPT ![k].st = "accepted"]
      BY <1>2 DEF ReserveCancel
    <3>2. QED BY <1>0, <3>1, UseChanged DEF WorkShaped
  <2>4. QED BY <1>0, <2>1, <2>2, <2>3, WorkRests DEF WorkShaped, ClaimShaped
<1>3. QED BY <1>1, <1>2


(* The steps of a request that change its receipt and itself only.           *)
LEMMA ReservingRests == ASSUME WorkInv, NEW e \in Executors, Reserve(e) PROVE WorkInv'
<1>0. CallsShaped /\ UsesShaped
  BY DEF WorkInv, WorkShaped
<1>1. UNCHANGED <<run, worker, claim, lastOp, effects, lock>> /\ call[e].pc # "idle"
  BY DEF Reserve, ledger, At
<1>2. Elsewhere(e)
  <2>1. Reply(e) \/ \E p \in {"reserved", "takeover", "observe", "unbound"} : Goto(e, p)
    BY DEF Reserve, Readmit
  <2>2. CASE Reply(e)
    BY <1>0, <2>2, RequestsMove
  <2>3. CASE \E p \in {"reserved", "takeover", "observe", "unbound"} : Goto(e, p)
    BY <1>0, <1>1, <2>3, RequestsMove DEF Elsewhere, AtClaim
  <2>4. QED BY <2>1, <2>2, <2>3
<1>3. UsesShaped'
  <2> DEFINE k == K(e)
  <2>1. \/ UNCHANGED use
        \/ use' = [use EXCEPT ![k] = [NoUse EXCEPT !.st = "pending", !.source = Selected,
                                                   !.exec = e, !.live = TRUE]]
        \/ use' = [use EXCEPT ![k].st = "pending", ![k].exec = e, ![k].live = TRUE]
    BY DEF Reserve, Own
  <2> HIDE DEF k
  <2>2. CASE UNCHANGED use
    BY <1>0, <2>2 DEF UsesShaped
  <2>3. CASE use' = [use EXCEPT ![k] = [NoUse EXCEPT !.st = "pending", !.source = Selected,
                                                     !.exec = e, !.live = TRUE]]
    BY <1>0, <2>3 DEF UsesShaped, NoUse
  <2>4. CASE use' = [use EXCEPT ![k].st = "pending", ![k].exec = e, ![k].live = TRUE]
    BY <1>0, <2>4, UseChanged
  <2>5. QED BY <2>1, <2>2, <2>3, <2>4
<1>4. QED BY <1>1, <1>2, <1>3, WorkRests DEF WorkInv, WorkShaped, ClaimShaped

LEMMA RequestRests ==
    ASSUME WorkInv, NEW e \in Executors,
           \/ FailUnbound(e) \/ Reconcile(e) \/ ReadLive(e) \/ Dismiss(e) \/ ClaimRefused(e)
           \/ Unconfirmed(e) \/ Finish(e) \/ Fail(e) \/ Stumble(e) \/ CancelRefused(e)
           \/ CancelUnconfirmed(e) \/ SettleCancel(e)
    PROVE  WorkInv'
<1>0. CallsShaped /\ UsesShaped /\ ClaimShaped /\ DOMAIN effects = Keys
  BY DEF WorkInv, WorkShaped
<1>1. UNCHANGED <<run, worker, claim, lastOp>> /\ DOMAIN effects' = Keys /\ call[e].pc # "idle"
  BY <1>0 DEF FailUnbound, Reconcile, ReadLive, Dismiss, ClaimRefused, Unconfirmed, Finish, Fail,
              Stumble, CancelRefused, CancelUnconfirmed, SettleCancel, ledger, At, Controlling
<1>2. lock' = lock \/ lock = e
  <2>1. CASE Unconfirmed(e) \/ CancelUnconfirmed(e)
    BY <2>1 DEF Unconfirmed, CancelUnconfirmed, At, WorkInv, ClaimStands, AtClaim
  <2>2. CASE ~(Unconfirmed(e) \/ CancelUnconfirmed(e))
    BY <2>2 DEF FailUnbound, Reconcile, ReadLive, Dismiss, ClaimRefused, Finish, Fail,
              Stumble, CancelRefused, SettleCancel
  <2>3. QED BY <2>1, <2>2
<1>3. Elsewhere(e)
  <2>1. \/ Reply(e) \/ (\E r, res, adv : Answer(e, r, res, adv))
        \/ (\E p \in {"reserved", "failing", "cancelled"} : Goto(e, p))
        \/ call' = [call EXCEPT ![e].pc = "exec", ![e].run = Selected, ![e].st = run[Selected].st]
    BY DEF FailUnbound, Reconcile, ReadLive, Dismiss, ClaimRefused, Unconfirmed, Finish, Fail,
              Stumble, CancelRefused, CancelUnconfirmed, SettleCancel
  <2>2. CASE \E p \in {"reserved", "failing", "cancelled"} : Goto(e, p)
    BY <1>0, <1>1, <2>2, RequestsMove DEF Elsewhere, AtClaim
  <2>3. CASE call' = [call EXCEPT ![e].pc = "exec", ![e].run = Selected, ![e].st = run[Selected].st]
    BY <1>0, <1>1, <2>3 DEF CallsShaped, Elsewhere, AtClaim
  <2>4. CASE Reply(e) \/ \E r, res, adv : Answer(e, r, res, adv)
    BY <1>0, <1>1, <2>4, RequestsMove
  <2>5. QED BY <2>1, <2>2, <2>3, <2>4
<1>4. UsesShaped'
  <2> DEFINE k == K(e)
  <2>1. \/ UNCHANGED use
        \/ \E st, x : use' = [use EXCEPT ![k].st = st, ![k].live = x]
        \/ \E st, x : use' = [use EXCEPT ![k].st = st, ![k].resp = x]
        \/ \E st : use' = [use EXCEPT ![k].st = st]
    BY DEF FailUnbound, Reconcile, ReadLive, Dismiss, ClaimRefused, Unconfirmed, Finish, Fail,
              Stumble, CancelRefused, CancelUnconfirmed, SettleCancel
  <2> HIDE DEF k
  <2>2. CASE UNCHANGED use
    BY <1>0, <2>2 DEF UsesShaped
  <2>3. CASE \E st, x : use' = [use EXCEPT ![k].st = st, ![k].live = x]
    BY <1>0, <2>3, UseChanged
  <2>4. CASE \E st, x : use' = [use EXCEPT ![k].st = st, ![k].resp = x]
    BY <1>0, <2>4, UseChanged
  <2>5. CASE \E st : use' = [use EXCEPT ![k].st = st]
    BY <1>0, <2>5, UseChanged
  <2>6. QED BY <2>1, <2>2, <2>3, <2>4, <2>5
<1>5. QED BY <1>0, <1>1, <1>2, <1>3, <1>4, WorkRests DEF ClaimShaped

\* Leases run out, and a process dies.
LEMMA OutsideRests ==
    ASSUME WorkInv, ExpireClaim \/ (\E k \in Keys : ExpireUse(k)) \/ (\E e \in Executors : Die(e))
    PROVE  WorkInv'
<1>0. WorkShaped /\ UsesShaped
  BY DEF WorkInv, WorkShaped
<1>1. CASE ExpireClaim
  <2>1. claim'.op = claim.op /\ claim'.act = claim.act /\ DOMAIN claim' = DOMAIN claim
    BY <1>0, <1>1 DEF ExpireClaim, WorkShaped, ClaimShaped
  <2>2. UNCHANGED <<run, worker, lastOp, use, call, lock, effects>>
    BY <1>1 DEF ExpireClaim
  <2>3. QED BY <2>1, <2>2 DEF WorkInv, WorkShaped, RunsShaped, WorkerShaped, UsesShaped, CallsShaped,
                ClaimShaped, ClaimStands, StopStands, WorkStoppedIsEmpty, InState
<1>2. ASSUME NEW k \in Keys, ExpireUse(k) PROVE WorkInv'
  <2>1. UNCHANGED <<run, worker, claim, lastOp, call, lock, effects>>
    BY <1>2 DEF ExpireUse, ledger
  <2>2. UsesShaped'
    BY <1>0, <1>2, UseChanged DEF ExpireUse
  <2>3. QED BY <2>1, <2>2 DEF WorkInv, WorkShaped, RunsShaped, WorkerShaped, CallsShaped,
                ClaimShaped, ClaimStands, StopStands, WorkStoppedIsEmpty, InState
<1>3. ASSUME NEW e \in Executors, Die(e) PROVE WorkInv'
  <2>1. UNCHANGED <<run, worker, claim, lastOp, effects>> /\ (lock' = lock \/ lock = e)
    BY <1>3 DEF Die, ledger
  <2>2. Elsewhere(e)
    BY <1>0, <1>3 DEF Die, Elsewhere, WorkShaped, CallsShaped, NoCall, AtClaim
  <2>3. UsesShaped'
    BY <1>0, <1>3 DEF Die, UsesShaped
  <2>4. QED BY <1>0, <2>1, <2>2, <2>3, WorkRests DEF WorkShaped, ClaimShaped
<1>4. QED BY <1>1, <1>2, <1>3

(* Work is added or moves on while no stop has settled.                      *)
LEMMA WorkMoves ==
    ASSUME WorkInv, worker.outcome = "" \/ \A q \in Runs : run'[q] = run[q],
           RunsShaped', WorkerShaped', worker'.stop = worker.stop, worker'.outcome = worker.outcome,
           UNCHANGED claim, lastOp' \in Nat, UsesShaped', DOMAIN effects' = Keys, CallsShaped',
           ClaimStands'
    PROVE  WorkInv'
<1>1. ClaimShaped'
  BY DEF WorkInv, WorkShaped, ClaimShaped
<1>2. StopStands'
  BY DEF WorkInv, StopStands
<1>3. WorkStoppedIsEmpty'
  BY DEF WorkInv, WorkStoppedIsEmpty, InState
<1>4. QED BY <1>1, <1>2, <1>3 DEF WorkInv, WorkShaped

LEMMA RowsChanged ==
    ASSUME RunsShaped, WorkerShaped
    PROVE  /\ \A r : run' = [run EXCEPT ![r] = NewRun] => RunsShaped'
           /\ \A r, st : run' = [run EXCEPT ![r].st = st] => RunsShaped'
           /\ \A r, q, st : run' = [run EXCEPT ![r] = NewRun, ![q].st = st] => RunsShaped'
           /\ \A st : worker' = [worker EXCEPT !.st = st]
                         => /\ WorkerShaped' /\ worker'.stop = worker.stop
                            /\ worker'.outcome = worker.outcome
  BY DEF RunsShaped, WorkerShaped, NewRun

LEMMA NothingStopped == ASSUME WorkInv, AdmitsWork \/ claim.op # 0 PROVE worker.outcome = ""
  BY DEF WorkInv, StopStands, AdmitsWork

LEMMA CreatingKeeps ==
    ASSUME WorkInv, NEW e \in Executors, AssignRun(e) \/ ReplaceQueued(e) PROVE WorkInv'
<1>0. RunsShaped /\ WorkerShaped /\ CallsShaped /\ ClaimShaped /\ UsesShaped /\ ClaimStands
      /\ DOMAIN effects = Keys
  BY DEF WorkInv, WorkShaped
<1> DEFINE k == K(e)
           src == call[e].run
<1>1. /\ UNCHANGED <<claim, lastOp, use, lock>> /\ lock = "" /\ DOMAIN effects' = Keys
      /\ call[e].pc = "exec"
  BY <1>0 DEF AssignRun, ReplaceQueued, At
<1>2. \/ run' = run
      \/ AdmitsWork /\ run' = [run EXCEPT ![k] = NewRun]
      \/ AdmitsWork /\ run' = [run EXCEPT ![k] = NewRun, ![src].st = "cancelled"]
  BY DEF AssignRun, ReplaceQueued
<1>3. worker' = worker \/ worker' = [worker EXCEPT !.st = "starting"]
  BY DEF AssignRun, ReplaceQueued
<1>4. \/ Goto(e, "failing") \/ (\E r, res, adv : Answer(e, r, res, adv))
      \/ call' = [call EXCEPT ![e].st = "started"]
  BY DEF AssignRun, ReplaceQueued
<1> HIDE DEF k, src
<1>5. RunsShaped' /\ (worker.outcome = "" \/ \A q \in Runs : run'[q] = run[q])
  <2>1. CASE run' = run
    BY <1>0, <2>1 DEF RunsShaped
  <2>2. CASE AdmitsWork /\ run' = [run EXCEPT ![k] = NewRun]
    BY <1>0, <2>2, RowsChanged, NothingStopped
  <2>3. CASE AdmitsWork /\ run' = [run EXCEPT ![k] = NewRun, ![src].st = "cancelled"]
    BY <1>0, <2>3, RowsChanged, NothingStopped
  <2>4. QED BY <1>2, <2>1, <2>2, <2>3
<1>6. WorkerShaped' /\ worker'.stop = worker.stop /\ worker'.outcome = worker.outcome
  <2>1. CASE worker' = worker
    BY <1>0, <2>1 DEF WorkerShaped
  <2>2. CASE worker' = [worker EXCEPT !.st = "starting"]
    BY <1>0, <2>2, RowsChanged
  <2>3. QED BY <1>3, <2>1, <2>2
<1>7. Elsewhere(e)
  <2>1. CASE Goto(e, "failing")
    <3>1. /\ CallsShaped' /\ call'[e].pc = "failing"
          /\ \A d \in Executors : d # e => call'[d] = call[d]
      BY <1>0, <1>1, <2>1, RequestsMove
    <3>2. QED BY <3>1 DEF Elsewhere, AtClaim
  <2>2. CASE \E r, res, adv : Answer(e, r, res, adv)
    BY <1>0, <1>1, <2>2, RequestsMove
  <2>3. CASE call' = [call EXCEPT ![e].st = "started"]
    BY <1>0, <1>1, <2>3 DEF CallsShaped, Elsewhere, AtClaim
  <2>4. QED BY <1>4, <2>1, <2>2, <2>3
<1>8. ClaimStands'
  BY <1>0, <1>1, <1>7, ClaimKept
<1>9. UsesShaped' /\ lastOp' \in Nat
  BY <1>0, <1>1 DEF UsesShaped, ClaimShaped
<1>10. CallsShaped'
  BY <1>7 DEF Elsewhere
<1>11. QED BY <1>1, <1>5, <1>6, <1>8, <1>9, <1>10, WorkMoves

LEMMA ResumingKeeps == ASSUME WorkInv, NEW e \in Executors, ResumeNeedsInput(e) PROVE WorkInv'
<1>0. RunsShaped /\ WorkerShaped /\ CallsShaped /\ ClaimShaped /\ UsesShaped /\ ClaimStands
      /\ DOMAIN effects = Keys
  BY DEF WorkInv, WorkShaped
<1> DEFINE k == K(e)
           r == call[e].run
           op == IF use[k].op # 0 THEN use[k].op ELSE lastOp + 1
<1>1. UNCHANGED <<claim, lock>> /\ DOMAIN effects' = Keys /\ call[e].pc = "exec" /\ k \in Keys
  BY <1>0 DEF ResumeNeedsInput, At, CallsShaped, K
<1>2. \/ /\ run[r].st = "needs_input" /\ run' = [run EXCEPT ![r].st = "queued"]
         /\ op <= MaxOps
         /\ worker' = [worker EXCEPT !.st = "starting"]
         /\ use' = [use EXCEPT ![k].op = op]
         /\ lastOp' = IF op > lastOp THEN op ELSE lastOp
         /\ Answer(e, r, "effect", FALSE)
      \/ UNCHANGED <<run, worker, use, lastOp>> /\ (Goto(e, "failing") \/ Answer(e, r, "effect", FALSE))
  BY DEF ResumeNeedsInput
<1> HIDE DEF k, r
<1>3. CASE UNCHANGED <<run, worker, use, lastOp>> /\ (Goto(e, "failing") \/ Answer(e, r, "effect", FALSE))
  <2>1. Elsewhere(e)
    <3>1. CASE Goto(e, "failing")
      BY <1>0, <1>1, <3>1, RequestsMove DEF Elsewhere, AtClaim
    <3>2. CASE Answer(e, r, "effect", FALSE)
      BY <1>0, <1>1, <3>2, RequestsMove
    <3>3. QED BY <1>3, <3>1, <3>2
  <2>2. UsesShaped'
    BY <1>0, <1>3 DEF UsesShaped
  <2>3. QED BY <1>0, <1>1, <1>3, <2>1, <2>2, WorkRests DEF ClaimShaped
<1>4. CASE /\ run[r].st = "needs_input" /\ run' = [run EXCEPT ![r].st = "queued"]
           /\ op <= MaxOps
           /\ worker' = [worker EXCEPT !.st = "starting"]
           /\ use' = [use EXCEPT ![k].op = op]
           /\ lastOp' = IF op > lastOp THEN op ELSE lastOp
           /\ Answer(e, r, "effect", FALSE)
  <2>1. worker.outcome = "" \/ \A q \in Runs : run'[q] = run[q]
    <3>1. CASE r \in Runs
      <4>1. r \in InState(Controllable)
        BY <1>4, <3>1 DEF InState, Controllable
      <4>2. QED BY <4>1 DEF WorkInv, WorkStoppedIsEmpty
    <3>2. CASE r \notin Runs
      BY <1>0, <1>4, <3>2 DEF RunsShaped
    <3>3. QED BY <3>1, <3>2
  <2>2. RunsShaped' /\ WorkerShaped' /\ worker'.stop = worker.stop /\ worker'.outcome = worker.outcome
    BY <1>0, <1>4, RowsChanged
  <2>3. UsesShaped'
    BY <1>0, <1>4 DEF UsesShaped, ClaimShaped
  <2>4. lastOp' \in Nat
    <3>1. lastOp \in Nat /\ MaxOps \in Nat
      BY <1>0, OpsAssumption DEF ClaimShaped
    <3>2. QED BY <1>0, <1>1, <1>4, <3>1 DEF UsesShaped
  <2>5. Elsewhere(e)
    BY <1>0, <1>1, <1>4, RequestsMove
  <2>6. ClaimStands' /\ CallsShaped'
    BY <1>0, <1>1, <2>5, ClaimKept DEF Elsewhere
  <2>7. QED BY <1>1, <2>1, <2>2, <2>3, <2>4, <2>6, WorkMoves
<1>5. QED BY <1>2, <1>3, <1>4

LEMMA RetryingKeeps == ASSUME WorkInv, NEW e \in Executors, NEW k \in Keys, RetryRun(e, k) PROVE WorkInv'
<1>0. RunsShaped /\ WorkerShaped /\ CallsShaped /\ ClaimShaped /\ UsesShaped /\ ClaimStands
      /\ DOMAIN effects = Keys
  BY DEF WorkInv, WorkShaped
<1>1. UNCHANGED <<claim, lastOp, call, lock>> /\ AdmitsWork /\ DOMAIN effects' = Keys
  BY <1>0 DEF RetryRun
<1>2. RunsShaped'
  BY <1>0, RowsChanged DEF RetryRun
<1>3. WorkerShaped' /\ worker'.stop = worker.stop /\ worker'.outcome = worker.outcome
  <2>1. worker' = worker \/ worker' = [worker EXCEPT !.st = "starting"]
    BY DEF RetryRun
  <2>2. CASE worker' = worker
    BY <1>0, <2>2 DEF WorkerShaped
  <2>3. CASE worker' = [worker EXCEPT !.st = "starting"]
    BY <1>0, <2>3, RowsChanged
  <2>4. QED BY <2>1, <2>2, <2>3
<1>4. UsesShaped'
  BY <1>0, UseChanged DEF RetryRun
<1>5. CallsShaped' /\ ClaimStands' /\ lastOp' \in Nat
  BY <1>0, <1>1 DEF CallsShaped, ClaimStands, ClaimShaped
<1>6. QED BY <1>1, <1>2, <1>3, <1>4, <1>5, NothingStopped, WorkMoves

LEMMA RunningKeeps == ASSUME WorkInv, NEW r \in Runs, RunMoves(r) PROVE WorkInv'
<1>0. RunsShaped /\ WorkerShaped /\ CallsShaped /\ ClaimShaped /\ UsesShaped /\ ClaimStands
      /\ DOMAIN effects = Keys
  BY DEF WorkInv, WorkShaped
<1>1. UNCHANGED <<claim, lastOp, use, call, lock, effects>>
  BY DEF RunMoves
<1>2. worker.outcome = ""
  <2>1. r \in InState(Controllable)
    BY DEF RunMoves, InState, Controllable
  <2>2. QED BY <2>1 DEF WorkInv, WorkStoppedIsEmpty
<1>3. RunsShaped'
  <2>1. \E st : run' = [run EXCEPT ![r].st = st]
    BY DEF RunMoves
  <2>2. QED BY <1>0, <2>1, RowsChanged
<1>4. WorkerShaped' /\ worker'.stop = worker.stop /\ worker'.outcome = worker.outcome
  <2>1. worker' = worker \/ worker' = [worker EXCEPT !.st = "ready"]
    BY DEF RunMoves
  <2>2. CASE worker' = worker
    BY <1>0, <2>2 DEF WorkerShaped
  <2>3. CASE worker' = [worker EXCEPT !.st = "ready"]
    BY <1>0, <2>3, RowsChanged
  <2>4. QED BY <2>1, <2>2, <2>3
<1>5. UsesShaped' /\ CallsShaped' /\ ClaimStands' /\ lastOp' \in Nat /\ DOMAIN effects' = Keys
  BY <1>0, <1>1 DEF UsesShaped, CallsShaped, ClaimStands, ClaimShaped
<1>6. QED BY <1>1, <1>2, <1>3, <1>4, <1>5, WorkMoves

(* A claim is taken: no stop has settled.                                    *)
LEMMA ClaimTaken ==
    ASSUME WorkInv, NEW a, NEW r, NEW repl, CanClaim(a, r, repl), TakeClaim(a, r, repl)
    PROVE  /\ RunsShaped' /\ WorkerShaped' /\ ClaimShaped'
           /\ claim'.op = ClaimOp /\ claim'.act = a /\ claim'.op # 0
           /\ worker'.outcome = "" /\ (IF a = "stop" THEN worker'.stop # 0 ELSE worker'.stop = 0)
<1>0. RunsShaped /\ WorkerShaped /\ ClaimShaped /\ StopStands
  BY DEF WorkInv, WorkShaped
<1>1. RunsShaped'
  <2>1. run' = run \/ run' = [run EXCEPT ![repl] = NewRun]
    BY DEF TakeClaim
  <2>2. CASE run' = run
    BY <1>0, <2>2 DEF RunsShaped
  <2>3. QED BY <1>0, <2>1, <2>2, RowsChanged
<1>2. ClaimOp \in Nat /\ ClaimOp # 0 /\ lastOp' \in Nat
  BY <1>0 DEF ClaimOp, ClaimShaped, TakeClaim
<1>3. ClaimShaped' /\ claim'.op = ClaimOp /\ claim'.act = a
  BY <1>2 DEF TakeClaim, ClaimShaped
<1>4. worker.outcome = "" /\ (a # "stop" => worker.stop = 0)
  BY <1>0 DEF CanClaim, StopStands
<1>5. CASE a = "stop"
  <2>1. worker' = [worker EXCEPT !.st = "stopping", !.stop = ClaimOp, !.outcome = ""]
    BY <1>5 DEF TakeClaim
  <2>2. WorkerShaped' /\ worker'.stop = ClaimOp /\ worker'.outcome = ""
    BY <1>0, <2>1 DEF WorkerShaped
  <2>3. QED BY <1>1, <1>2, <1>3, <1>5, <2>2
<1>6. CASE a # "stop"
  <2>1. worker' = worker
    BY <1>6 DEF TakeClaim
  <2>2. QED BY <1>0, <1>1, <1>2, <1>3, <1>4, <1>6, <2>1 DEF WorkerShaped
<1>7. QED BY <1>5, <1>6

LEMMA ClaimingKeeps ==
    ASSUME WorkInv, NEW e \in Executors, ClaimControl(e) \/ ClaimCancel(e) PROVE WorkInv'
<1>0. CallsShaped /\ ClaimShaped /\ UsesShaped /\ ClaimStands /\ DOMAIN effects = Keys
  BY DEF WorkInv, WorkShaped
<1>1. PICK a, r, repl : CanClaim(a, r, repl) /\ TakeClaim(a, r, repl)
  BY DEF ClaimControl, ClaimCancel
<1>2. /\ RunsShaped' /\ WorkerShaped' /\ ClaimShaped'
      /\ claim'.op = ClaimOp /\ claim'.act = a /\ claim'.op # 0
      /\ worker'.outcome = "" /\ (IF a = "stop" THEN worker'.stop # 0 ELSE worker'.stop = 0)
  BY <1>1, ClaimTaken
<1>3. /\ lock = "" /\ lock' = e /\ UNCHANGED effects /\ call[e].pc # "idle"
      /\ \E p \in AtClaim : Goto(e, p)
  BY DEF ClaimControl, ClaimCancel, Controlling, At, AtClaim
<1>4. CallsShaped' /\ \A d \in Executors : d # e => call'[d] = call[d]
  BY <1>0, <1>3, RequestsMove
<1>5. ClaimStands'
  <2>1. SUFFICES ASSUME NEW d \in Executors, d # e, call'[d].pc \in AtClaim PROVE FALSE
    BY <1>2, <1>3 DEF ClaimStands
  <2>2. lock = d
    BY <1>0, <1>4, <2>1 DEF ClaimStands
  <2>3. QED BY <1>3, <2>2, ExecutorsAssumption
<1>6. UsesShaped'
  <2>1. UNCHANGED use \/ use' = [use EXCEPT ![K(e)].op = ClaimOp]
    BY DEF ClaimControl, ClaimCancel
  <2>2. CASE UNCHANGED use
    BY <1>0, <2>2 DEF UsesShaped
  <2>3. CASE use' = [use EXCEPT ![K(e)].op = ClaimOp]
    <3>1. ClaimOp \in Nat
      BY <1>0 DEF ClaimOp, ClaimShaped
    <3>2. QED BY <1>0, <2>3, <3>1, UseChanged
  <2>4. QED BY <2>1, <2>2, <2>3
<1>7. StopStands' /\ WorkStoppedIsEmpty'
  BY <1>2 DEF StopStands, WorkStoppedIsEmpty
<1>8. QED BY <1>0, <1>2, <1>3, <1>4, <1>5, <1>6, <1>7 DEF WorkInv, WorkShaped

(* A claim is finalised: the runs it ends, and the tombstone.                *)
LEMMA ClaimFinalized ==
    ASSUME WorkInv, claim.op # 0, FinalizeClaim
    PROVE  /\ RunsShaped' /\ WorkerShaped' /\ DOMAIN effects' = Keys
           /\ StopStands' /\ WorkStoppedIsEmpty' /\ claim' = NoClaim
<1>0. RunsShaped /\ WorkerShaped /\ ClaimShaped /\ StopStands /\ DOMAIN effects = Keys
  BY DEF WorkInv, WorkShaped
<1>1. claim' = NoClaim /\ claim'.op = 0 /\ claim'.act = ""
  BY DEF FinalizeClaim, NoClaim
<1>2. DOMAIN effects' = Keys
  BY <1>0 DEF FinalizeClaim, Counted
<1>3. CASE claim.act = "stop"
  <2>1. run' = [r \in Runs |-> IF run[r].st \in Controllable
                               THEN [run[r] EXCEPT !.st = "cancelled"] ELSE run[r]]
    BY <1>3 DEF FinalizeClaim
  <2>2. \E out : worker' = [worker EXCEPT !.st = "ready", !.outcome = out]
    BY <1>3 DEF FinalizeClaim
  <2>3. RunsShaped'
    BY <1>0, <2>1 DEF RunsShaped
  <2>4. WorkerShaped' /\ worker'.stop = worker.stop
    BY <1>0, <2>2 DEF WorkerShaped
  <2>5. \A r \in Runs : run'[r].st \notin Controllable
    BY <1>0, <2>1 DEF RunsShaped, Controllable
  <2>6. StopStands'
    BY <1>0, <1>1, <1>3, <2>4 DEF StopStands
  <2>7. WorkStoppedIsEmpty'
    BY <2>5 DEF WorkStoppedIsEmpty, InState
  <2>8. QED BY <1>1, <1>2, <2>3, <2>4, <2>6, <2>7
<1>4. CASE claim.act # "stop"
  <2>1. RunsShaped'
    <3>1. run' = run \/ \E r, st : run' = [run EXCEPT ![r].st = st]
      BY <1>4 DEF FinalizeClaim
    <3>2. CASE run' = run
      BY <1>0, <3>2 DEF RunsShaped
    <3>3. QED BY <1>0, <3>1, <3>2, RowsChanged
  <2>2. WorkerShaped' /\ worker'.stop = worker.stop /\ worker'.outcome = worker.outcome
    <3>1. \E st : worker' = [worker EXCEPT !.st = st]
      BY <1>4 DEF FinalizeClaim
    <3>2. QED BY <1>0, <3>1, RowsChanged
  <2>3. worker.stop = 0 /\ worker.outcome = ""
    BY <1>0, <1>4 DEF StopStands
  <2>4. QED BY <1>1, <1>2, <2>1, <2>2, <2>3 DEF StopStands, WorkStoppedIsEmpty
<1>5. QED BY <1>3, <1>4

\* What finalising a claim does to the receipts.
LEMMA ReceiptsFinal ==
    ASSUME UsesShaped
    PROVE  /\ DOMAIN ReceiptsFinalized = Keys
           /\ \A k \in Keys :
                /\ DOMAIN ReceiptsFinalized[k] = DOMAIN use[k]
                /\ ReceiptsFinalized[k].op = use[k].op
                /\ ReceiptsFinalized[k].source = use[k].source
                /\ ReceiptsFinalized[k].exec = use[k].exec
                /\ ReceiptsFinalized[k].resp = use[k].resp
                /\ ReceiptsFinalized[k].st \in {use[k].st, "failed", "accepted"}
                /\ ReceiptsFinalized[k].st = "failed" /\ use[k].st # "failed"
                      => claim.act = "stop" /\ ActionOf[k] # "stop"
<1>1. CASE claim.act # "stop"
  BY <1>1 DEF ReceiptsFinalized, UsesShaped
<1>2. CASE claim.act = "stop"
  BY <1>2 DEF ReceiptsFinalized, UsesShaped
<1>3. QED BY <1>1, <1>2

LEMMA FinalizingKeeps ==
    ASSUME WorkInv, RecoverClaim \/ \E e \in Executors : Finalize(e) \/ FinishCancel(e)
    PROVE  WorkInv'
<1>0. CallsShaped /\ ClaimShaped /\ UsesShaped /\ ClaimStands
  BY DEF WorkInv, WorkShaped
<1>1. claim.op # 0 /\ FinalizeClaim /\ UNCHANGED lastOp
  BY <1>0 DEF RecoverClaim, Finalize, FinishCancel, At, ClaimStands, AtClaim
<1>2. /\ RunsShaped' /\ WorkerShaped' /\ DOMAIN effects' = Keys
      /\ StopStands' /\ WorkStoppedIsEmpty' /\ claim' = NoClaim
  BY <1>1, ClaimFinalized
<1>3. ClaimShaped'
  BY <1>0, <1>1, <1>2 DEF ClaimShaped, NoClaim
<1>4. UsesShaped' /\ CallsShaped' /\ ClaimStands'
  <2>1. CASE RecoverClaim
    <3>1. UsesShaped'
      <4>1. ASSUME NEW k \in Keys
            PROVE  /\ use'[k].op \in Nat
                   /\ DOMAIN use'[k] = {"st", "source", "op", "exec", "live", "resp"}
        <5>1. \/ use'[k] = ReceiptsFinalized[k]
              \/ use'[k] = [use[k] EXCEPT !.st = "completed", !.resp = "effect"]
          BY <2>1 DEF RecoverClaim
        <5>2. QED BY <1>0, <5>1, ReceiptsFinal DEF UsesShaped
      <4>2. QED BY <2>1, <4>1 DEF RecoverClaim, UsesShaped
    <3>2. \A d \in Executors : call[d].pc \notin AtClaim
      BY <1>0, <2>1, ExecutorsAssumption DEF RecoverClaim, ClaimStands
    <3>3. QED BY <1>0, <2>1, <3>1, <3>2 DEF RecoverClaim, CallsShaped, ClaimStands
  <2>2. ASSUME NEW e \in Executors, Finalize(e) \/ FinishCancel(e)
        PROVE  UsesShaped' /\ CallsShaped' /\ ClaimStands'
    <3>1. lock = e /\ call[e].pc # "idle" /\ use' = ReceiptsFinalized
      BY <1>0, <2>2 DEF Finalize, FinishCancel, At, ClaimStands, AtClaim
    <3>2. Elsewhere(e)
      <4>1. Goto(e, "cancelled") \/ \E r, res, adv : Answer(e, r, res, adv)
        BY <2>2 DEF Finalize, FinishCancel
      <4>2. CASE Goto(e, "cancelled")
        <5>1. /\ CallsShaped' /\ call'[e].pc = "cancelled"
              /\ \A d \in Executors : d # e => call'[d] = call[d]
          BY <1>0, <3>1, <4>2, RequestsMove
        <5>2. QED BY <5>1 DEF Elsewhere, AtClaim
      <4>3. CASE \E r, res, adv : Answer(e, r, res, adv)
        BY <1>0, <3>1, <4>3, RequestsMove
      <4>4. QED BY <4>1, <4>2, <4>3
    <3>3. UsesShaped'
      BY <1>0, <3>1, ReceiptsFinal DEF UsesShaped
    <3>4. QED BY <1>0, <3>1, <3>2, <3>3, ClaimKept DEF Elsewhere
  <2>3. QED BY <2>1, <2>2
<1>5. QED BY <1>2, <1>3, <1>4 DEF WorkInv, WorkShaped

LEMMA WorkStep == ASSUME WorkInv, [AwNext]_awVars PROVE WorkInv'
<1>1. CASE UNCHANGED awVars
  BY <1>1 DEF awVars, WorkInv, WorkShaped, RunsShaped, WorkerShaped, UsesShaped, CallsShaped,
              ClaimShaped, ClaimStands, StopStands, WorkStoppedIsEmpty, InState
<1>2. ASSUME NEW e \in Executors, RequestStep(e) PROVE WorkInv'
  BY <1>2, ReservingRests, RequestRests, CreatingKeeps, ResumingKeeps, ClaimingKeeps, FinalizingKeeps
     DEF RequestStep
<1>3. ASSUME NEW e \in Executors, Unconfirmed(e) \/ CancelUnconfirmed(e) \/ Stumble(e) \/ Die(e)
      PROVE  WorkInv'
  BY <1>3, RequestRests, OutsideRests
<1>4. ASSUME NEW e \in Executors, NEW k \in Keys, Begin(e, k) \/ RetryRun(e, k) \/ ReserveCancel(e, k)
      PROVE  WorkInv'
  BY <1>4, StartingRests, RetryingKeeps
<1>5. ASSUME (\E k \in Keys : ExpireUse(k)) \/ ExpireClaim \/ RecoverClaim
             \/ \E r \in Runs : RunMoves(r)
      PROVE  WorkInv'
  BY <1>5, OutsideRests, FinalizingKeeps, RunningKeeps
<1>6. QED BY <1>1, <1>2, <1>3, <1>4, <1>5 DEF AwNext

\* Once a stop of the worker has settled, nothing of it is left to do or to resume, whichever
\* requests were under way, whoever died and whoever finished the claim (stop_run,
\* finalize_worker_work_stop_claim, _require_worker_work_admission).
THEOREM StoppedWorkIsEmpty == AwSpec => []WorkStoppedIsEmpty
<1>1. AwInit => WorkInv
  BY WorkStarts
<1>2. WorkInv /\ [AwNext /\ UNCHANGED ActionOf]_awVars => WorkInv'
  BY WorkStep
<1>3. WorkInv => WorkStoppedIsEmpty
  BY DEF WorkInv
<1>4. QED BY <1>1, <1>2, <1>3, PTL DEF AwSpec

-----------------------------------------------------------------------------
(* ActiveWork: the action of a key takes effect once.                        *)

\* What was done for a key, and what keeps it from being done again: the run with the key's
\* identity, the operation its receipt is bound to, or the receipt of a capability.
Once(k) ==
    /\ effects[k] \in Nat
    /\ use[k].st = "none" => use[k].op = 0
    /\ ActionOf[k] \notin Controls => use[k].op = 0
    /\ ActionOf[k] \in Controls \ {"resume"} =>
          use[k].op <= lastOp /\ (effects[k] # 0 => use[k].op # 0 /\ use[k].op # claim.op)
    /\ ActionOf[k] \in Creating /\ effects[k] # 0 => run[k].st # "none"
    /\ ActionOf[k] = "retry_run" /\ effects[k] # 0 => use[k].st # "none"
    /\ ActionOf[k] # "resume" => effects[k] <= 1
OnceInv == claim.op <= lastOp /\ \A k \in Keys : Once(k)

LEMMA OnceStarts == ASSUME AwInit PROVE OnceInv
<1>1. claim.op = 0 /\ lastOp = 0
  BY DEF AwInit, NoClaim
<1>2. \A k \in Keys : use[k].op = 0 /\ effects[k] = 0
  BY DEF AwInit, NoUse
<1>3. QED BY <1>1, <1>2 DEF OnceInv, Once

\* The operations of a step: the claim goes or stays, or it is a new one.
OpsOn ==
    /\ lastOp' \in Nat /\ lastOp <= lastOp' /\ claim'.op \in Nat /\ claim'.op <= lastOp'
    /\ claim'.op \in {0, claim.op} \/ claim'.op > lastOp

\* A step that does nothing for a key and leaves its receipt where it was.
LEMMA KeyRests ==
    ASSUME WorkShaped, OnceInv, OpsOn, NEW k \in Keys, ActionOf'[k] = ActionOf[k],
           use'[k].op = use[k].op, effects'[k] = effects[k],
           use[k].st # "none" => use'[k].st # "none",
           run[k].st # "none" => run'[k].st # "none"
    PROVE  Once(k)'
<1>1. use[k].op \in Nat /\ lastOp \in Nat /\ claim.op \in Nat
  BY DEF WorkShaped, UsesShaped, ClaimShaped
<1>2. Once(k)
  BY DEF OnceInv
<1>3. QED BY <1>1, <1>2 DEF Once, OpsOn

\* The same for all keys.
LEMMA AllRest ==
    ASSUME WorkShaped, OnceInv, OpsOn, UNCHANGED <<ActionOf, effects>>,
           \A k \in Keys : /\ use'[k].op = use[k].op
                           /\ use[k].st # "none" => use'[k].st # "none"
                           /\ run[k].st # "none" => run'[k].st # "none"
    PROVE  OnceInv'
  BY KeyRests DEF OnceInv, OpsOn

\* The receipts of a step that binds none to an operation and removes none.
ReceiptsStay ==
    \A k \in Keys : use'[k].op = use[k].op /\ (use[k].st # "none" => use'[k].st # "none")

LEMMA ReceiptMoves ==
    ASSUME UsesShaped, NEW j
    PROVE  /\ \A st : use' = [use EXCEPT ![j].st = st] /\ st # "none" => ReceiptsStay
           /\ \A st, x : use' = [use EXCEPT ![j].st = st, ![j].live = x] /\ st # "none" => ReceiptsStay
           /\ \A st, x : use' = [use EXCEPT ![j].st = st, ![j].resp = x] /\ st # "none" => ReceiptsStay
           /\ \A x : use' = [use EXCEPT ![j].live = x] => ReceiptsStay
           /\ \A st, x : use' = [use EXCEPT ![j].st = st, ![j].exec = x, ![j].live = TRUE]
                         /\ st # "none" => ReceiptsStay
<1>1. ASSUME NEW st, use' = [use EXCEPT ![j].st = st], st # "none" PROVE ReceiptsStay
  BY <1>1 DEF UsesShaped, ReceiptsStay
<1>2. ASSUME NEW st, NEW x, use' = [use EXCEPT ![j].st = st, ![j].live = x], st # "none"
      PROVE  ReceiptsStay
  BY <1>2 DEF UsesShaped, ReceiptsStay
<1>3. ASSUME NEW st, NEW x, use' = [use EXCEPT ![j].st = st, ![j].resp = x], st # "none"
      PROVE  ReceiptsStay
  BY <1>3 DEF UsesShaped, ReceiptsStay
<1>4. ASSUME NEW x, use' = [use EXCEPT ![j].live = x] PROVE ReceiptsStay
  BY <1>4 DEF UsesShaped, ReceiptsStay
<1>5. ASSUME NEW st, NEW x, st # "none",
             use' = [use EXCEPT ![j].st = st, ![j].exec = x, ![j].live = TRUE]
      PROVE  ReceiptsStay
  BY <1>5 DEF UsesShaped, ReceiptsStay
<1>6. QED BY <1>1, <1>2, <1>3, <1>4, <1>5

LEMMA QuietKeepsOnce ==
    ASSUME WorkShaped, OnceInv, ReceiptsStay,
           UNCHANGED <<ActionOf, effects, run, lastOp>>, claim' = claim \/ claim'.op = claim.op
    PROVE  OnceInv'
<1>1. OpsOn
  BY DEF OpsOn, WorkShaped, ClaimShaped, OnceInv
<1>2. QED BY <1>1, AllRest DEF ReceiptsStay

LEMMA ReceiptsOfRequests ==
    ASSUME WorkShaped, OnceInv, NEW e \in Executors,
           \/ Reserve(e) \/ FailUnbound(e) \/ Reconcile(e) \/ ReadLive(e) \/ ClaimRefused(e)
           \/ Unconfirmed(e) \/ Finish(e) \/ Fail(e) \/ Stumble(e) \/ CancelRefused(e)
           \/ CancelUnconfirmed(e) \/ SettleCancel(e) \/ Die(e)
           \/ \E k \in Keys : Begin(e, k) \/ ReserveCancel(e, k)
    PROVE  ReceiptsStay
<1>0. UsesShaped
  BY DEF WorkShaped
<1>1. CASE Reserve(e)
  <2> DEFINE k == K(e)
  <2>1. \/ UNCHANGED use
        \/ /\ use[k].st = "none"
           /\ use' = [use EXCEPT ![k] = [NoUse EXCEPT !.st = "pending", !.source = Selected,
                                                      !.exec = e, !.live = TRUE]]
        \/ use' = [use EXCEPT ![k].st = "pending", ![k].exec = e, ![k].live = TRUE]
    BY <1>1 DEF Reserve, Own
  <2> HIDE DEF k
  <2>2. CASE UNCHANGED use
    BY <2>2 DEF ReceiptsStay
  <2>3. CASE /\ use[k].st = "none"
             /\ use' = [use EXCEPT ![k] = [NoUse EXCEPT !.st = "pending", !.source = Selected,
                                                        !.exec = e, !.live = TRUE]]
    BY <1>0, <2>3 DEF UsesShaped, NoUse, ReceiptsStay, OnceInv, Once
  <2>4. CASE use' = [use EXCEPT ![k].st = "pending", ![k].exec = e, ![k].live = TRUE]
    BY <1>0, <2>4, ReceiptMoves
  <2>5. QED BY <2>1, <2>2, <2>3, <2>4
<1>2. CASE Die(e)
  BY <1>0, <1>2 DEF Die, UsesShaped, ReceiptsStay
<1>3. CASE \/ Reconcile(e) \/ ReadLive(e) \/ ClaimRefused(e) \/ Unconfirmed(e) \/ CancelRefused(e)
           \/ \E k \in Keys : Begin(e, k)
  BY <1>3 DEF Reconcile, ReadLive, ClaimRefused, Unconfirmed, CancelRefused, Begin, ReceiptsStay
<1>4. CASE FailUnbound(e)
  <2>1. UNCHANGED use \/ use' = [use EXCEPT ![K(e)].st = "refused", ![K(e)].live = FALSE]
    BY <1>4 DEF FailUnbound
  <2>2. QED BY <1>0, <2>1, ReceiptMoves DEF ReceiptsStay
<1>5. CASE Finish(e)
  <2>1. UNCHANGED use \/ use' = [use EXCEPT ![K(e)].st = "completed", ![K(e)].resp = call[e].res]
    BY <1>5 DEF Finish
  <2>2. QED BY <1>0, <2>1, ReceiptMoves DEF ReceiptsStay
<1>6. CASE Fail(e) \/ Stumble(e) \/ CancelUnconfirmed(e) \/ SettleCancel(e)
  <2>1. \/ UNCHANGED use \/ use' = [use EXCEPT ![K(e)].st = "refused"]
        \/ use' = [use EXCEPT ![K(e)].st = "failed"] \/ use' = [use EXCEPT ![K(e)].st = "executing"]
        \/ use' = [use EXCEPT ![K(e)].st = "accepted"] \/ use' = [use EXCEPT ![K(e)].st = "conflict"]
    BY <1>6 DEF Fail, Stumble, CancelUnconfirmed, SettleCancel
  <2>2. CASE UNCHANGED use
    BY <2>2 DEF ReceiptsStay
  <2>3. \A st : use' = [use EXCEPT ![K(e)].st = st] /\ st # "none" => ReceiptsStay
    BY <1>0, ReceiptMoves
  <2>4. QED BY <2>1, <2>2, <2>3
<1>7. ASSUME NEW k \in Keys, ReserveCancel(e, k) PROVE ReceiptsStay
  <2>1. \/ use' = [use EXCEPT ![k].st = "executing", ![k].live = TRUE]
        \/ use' = [use EXCEPT ![k].st = "conflict"] \/ use' = [use EXCEPT ![k].st = "accepted"]
    BY <1>7 DEF ReserveCancel
  <2>2. QED BY <1>0, <2>1, ReceiptMoves
<1>8. QED BY <1>1, <1>2, <1>3, <1>4, <1>5, <1>6, <1>7

LEMMA QuietRequests ==
    ASSUME WorkShaped, OnceInv, UNCHANGED ActionOf, NEW e \in Executors,
           \/ Reserve(e) \/ FailUnbound(e) \/ Reconcile(e) \/ ReadLive(e) \/ ClaimRefused(e)
           \/ Unconfirmed(e) \/ Finish(e) \/ Fail(e) \/ Stumble(e) \/ CancelRefused(e)
           \/ CancelUnconfirmed(e) \/ SettleCancel(e) \/ Die(e)
           \/ \E k \in Keys : Begin(e, k) \/ ReserveCancel(e, k)
    PROVE  OnceInv'
<1>1. ReceiptsStay
  BY ReceiptsOfRequests
<1>2. UNCHANGED <<effects, run, lastOp, claim>>
  BY DEF Reserve, FailUnbound, Reconcile, ReadLive, ClaimRefused, Unconfirmed, Finish, Fail,
         Stumble, CancelRefused, CancelUnconfirmed, SettleCancel, Die, Begin, ReserveCancel, ledger
<1>3. QED BY <1>1, <1>2, QuietKeepsOnce

LEMMA QuietOutside ==
    ASSUME WorkShaped, OnceInv, UNCHANGED ActionOf, ExpireClaim \/ \E k \in Keys : ExpireUse(k)
    PROVE  OnceInv'
<1>0. UsesShaped
  BY DEF WorkShaped
<1>1. CASE ExpireClaim
  <2>1. ReceiptsStay
    BY <1>1 DEF ExpireClaim, ReceiptsStay
  <2>2. claim'.op = claim.op
    BY <1>1 DEF ExpireClaim, WorkShaped, ClaimShaped
  <2>3. QED BY <1>1, <2>1, <2>2, QuietKeepsOnce DEF ExpireClaim
<1>2. ASSUME NEW k \in Keys, ExpireUse(k) PROVE OnceInv'
  <2>1. ReceiptsStay
    BY <1>0, <1>2, ReceiptMoves DEF ExpireUse
  <2>2. QED BY <1>2, <2>1, QuietKeepsOnce DEF ExpireUse, ledger
<1>3. QED BY <1>1, <1>2

(* Runs that are created or move on never become unwritten.                  *)
LEMMA RunsStay ==
    ASSUME RunsShaped, RunsShaped'
    PROVE  /\ \A r, st : run' = [run EXCEPT ![r].st = st] /\ st # "none"
                          => \A k \in Runs : run[k].st # "none" => run'[k].st # "none"
           /\ \A r : run' = [run EXCEPT ![r] = NewRun]
                          => \A k \in Runs : run[k].st # "none" => run'[k].st # "none"
           /\ \A r, q : run' = [run EXCEPT ![r] = NewRun, ![q].st = "cancelled"]
                          => \A k \in Runs : run[k].st # "none" => run'[k].st # "none"
  BY DEF RunsShaped, NewRun

LEMMA RunMovesOnce ==
    ASSUME WorkInv, WorkShaped', OnceInv, UNCHANGED ActionOf, NEW r \in Runs, RunMoves(r)
    PROVE  OnceInv'
<1>0. RunsShaped /\ RunsShaped' /\ WorkShaped
  BY DEF WorkInv, WorkShaped
<1>1. \E st : run' = [run EXCEPT ![r].st = st] /\ st # "none"
  BY DEF RunMoves
<1>2. \A k \in Keys : k \in Runs
  BY DEF Runs
<1>3. \A k \in Keys : run[k].st # "none" => run'[k].st # "none"
  BY <1>0, <1>1, <1>2, RunsStay
<1>4. UNCHANGED <<claim, lastOp, use, effects>>
  BY DEF RunMoves
<1>5. OpsOn
  BY <1>0, <1>4 DEF OpsOn, WorkShaped, ClaimShaped, OnceInv
<1>6. QED BY <1>0, <1>3, <1>4, <1>5, AllRest

(* The steps that do something for their key.                                *)
LEMMA CreatingOnce ==
    ASSUME WorkInv, WorkShaped', OnceInv, UNCHANGED ActionOf, NEW e \in Executors,
           AssignRun(e) \/ ReplaceQueued(e)
    PROVE  OnceInv'
<1>0. RunsShaped /\ RunsShaped' /\ WorkShaped /\ DOMAIN effects = Keys
  BY DEF WorkInv, WorkShaped
<1>1. PICK k \in Keys : k = K(e)
  BY DEF AssignRun, ReplaceQueued, At, WorkInv, WorkShaped, CallsShaped, K
<1>1a. k \in Runs
  BY DEF Runs
<1> DEFINE src == call[e].run
<1>2. ActionOf[k] \in Creating
  BY <1>1 DEF AssignRun, ReplaceQueued, Act, Creating
<1>3. UNCHANGED <<claim, lastOp, use>>
  BY DEF AssignRun, ReplaceQueued
<1>4. \/ UNCHANGED <<run, effects>>
      \/ /\ run[k].st = "none" /\ effects' = [effects EXCEPT ![k] = @ + 1]
         /\ run' = [run EXCEPT ![k] = NewRun] \/ run' = [run EXCEPT ![k] = NewRun, ![src].st = "cancelled"]
  BY <1>1 DEF AssignRun, ReplaceQueued
<1> HIDE DEF src
<1>5. OpsOn
  BY <1>0, <1>3 DEF OpsOn, WorkShaped, ClaimShaped, OnceInv
<1>6. \A q \in Keys : q \in Runs
  BY DEF Runs
<1>7. \A q \in Keys : run[q].st # "none" => run'[q].st # "none"
  BY <1>0, <1>4, <1>6, RunsStay
<1>8. ASSUME NEW q \in Keys, effects'[q] = effects[q] PROVE Once(q)'
  BY <1>0, <1>3, <1>5, <1>7, <1>8, KeyRests
<1>9. CASE UNCHANGED <<run, effects>>
  BY <1>0, <1>3, <1>5, <1>9, AllRest
<1>10. CASE /\ run[k].st = "none" /\ effects' = [effects EXCEPT ![k] = @ + 1]
            /\ run' = [run EXCEPT ![k] = NewRun] \/ run' = [run EXCEPT ![k] = NewRun, ![src].st = "cancelled"]
  <2>1. Once(k) /\ effects[k] = 0
    BY <1>1, <1>2, <1>10 DEF OnceInv, Once
  <2>2. effects'[k] = 1 /\ \A q \in Keys : q # k => effects'[q] = effects[q]
    BY <1>0, <1>1, <1>10, <2>1
  <2>3. run'[k].st # "none"
    BY <1>0, <1>1a, <1>10 DEF RunsShaped, NewRun
  <2>4. ActionOf[k] \notin Controls /\ ActionOf[k] # "retry_run"
    BY <1>2 DEF Creating, Controls
  <2>5. Once(k)'
    BY <1>3, <2>1, <2>2, <2>3, <2>4 DEF Once
  <2>6. QED BY <1>5, <1>8, <2>2, <2>5 DEF OnceInv, OpsOn
<1>11. QED BY <1>4, <1>9, <1>10

LEMMA RetryingOnce ==
    ASSUME WorkInv, WorkShaped', OnceInv, UNCHANGED ActionOf, NEW e \in Executors, NEW k \in Keys,
           RetryRun(e, k)
    PROVE  OnceInv'
<1>0. RunsShaped /\ RunsShaped' /\ WorkShaped /\ UsesShaped /\ DOMAIN effects = Keys
  BY DEF WorkInv, WorkShaped
<1>1. UNCHANGED <<claim, lastOp>> /\ ActionOf[k] = "retry_run" /\ use[k].st = "none"
  BY DEF RetryRun
<1>2. OpsOn
  BY <1>0, <1>1 DEF OpsOn, WorkShaped, ClaimShaped, OnceInv
<1>3. \A q \in Keys : q \in Runs /\ (run[q].st # "none" => run'[q].st # "none")
  BY <1>0, RunsStay DEF Runs, RetryRun
<1>4. use' = [use EXCEPT ![k].st = "completed", ![k].resp = "effect"]
  BY DEF RetryRun
<1>5. ReceiptsStay /\ use'[k].st # "none"
  BY <1>0, <1>4, ReceiptMoves DEF UsesShaped
<1>6. Once(k) /\ effects[k] = 0
  BY <1>1 DEF OnceInv, Once
<1>7. effects'[k] = 1 /\ \A q \in Keys : q # k => effects'[q] = effects[q]
  BY <1>0, <1>6 DEF RetryRun
<1>8. "retry_run" \notin Controls \cup Creating
  BY DEF Controls, Creating
<1>9. Once(k)'
  BY <1>1, <1>5, <1>6, <1>7, <1>8 DEF Once, ReceiptsStay
<1>10. ASSUME NEW q \in Keys, q # k PROVE Once(q)'
  BY <1>0, <1>2, <1>3, <1>5, <1>7, <1>10, KeyRests DEF ReceiptsStay
<1>11. QED BY <1>2, <1>9, <1>10 DEF OnceInv, OpsOn

LEMMA DismissingOnce ==
    ASSUME WorkInv, WorkShaped', OnceInv, UNCHANGED ActionOf, NEW e \in Executors, Dismiss(e)
    PROVE  OnceInv'
<1>0. WorkShaped /\ DOMAIN effects = Keys
  BY DEF WorkInv, WorkShaped
<1>1. PICK k \in Keys : k = K(e)
  BY DEF Dismiss, At, WorkInv, WorkShaped, CallsShaped, K
<1>1a. UNCHANGED <<claim, lastOp, use, run>> /\ ActionOf[k] = "dismiss"
  BY <1>1 DEF Dismiss, Act
<1>2. OpsOn
  BY <1>0, <1>1a DEF OpsOn, WorkShaped, ClaimShaped, OnceInv
<1>3. effects' = [effects EXCEPT ![k] = 1]
  BY <1>1 DEF Dismiss
<1>4. effects'[k] = 1 /\ \A q \in Keys : q # k => effects'[q] = effects[q]
  BY <1>0, <1>1, <1>3
<1>5. "dismiss" \notin Controls \cup Creating
  BY DEF Controls, Creating
<1>6. Once(k)'
  BY <1>1a, <1>4, <1>5 DEF Once, OnceInv
<1>7. ASSUME NEW q \in Keys, q # k PROVE Once(q)'
  BY <1>0, <1>1a, <1>2, <1>4, <1>7, KeyRests
<1>8. QED BY <1>2, <1>6, <1>7 DEF OnceInv, OpsOn

LEMMA ResumingOnce ==
    ASSUME WorkInv, WorkShaped', OnceInv, UNCHANGED ActionOf, NEW e \in Executors, ResumeNeedsInput(e)
    PROVE  OnceInv'
<1>0. /\ WorkShaped /\ UsesShaped /\ RunsShaped /\ RunsShaped' /\ ClaimShaped /\ ClaimShaped'
      /\ DOMAIN effects = Keys /\ claim.op <= lastOp
  BY DEF WorkInv, WorkShaped, OnceInv
<1>1. PICK k \in Keys : k = K(e)
  BY DEF ResumeNeedsInput, At, WorkInv, WorkShaped, CallsShaped, K
<1>2. ActionOf[k] = "resume" /\ UNCHANGED claim
  BY <1>1 DEF ResumeNeedsInput, Act
<1> DEFINE op == IF use[k].op # 0 THEN use[k].op ELSE lastOp + 1
<1>3. \/ /\ run' = [run EXCEPT ![call[e].run].st = "queued"]
         /\ use' = [use EXCEPT ![k].op = op] /\ use[k].st = "pending"
         /\ lastOp' = IF op > lastOp THEN op ELSE lastOp
         /\ effects' = [effects EXCEPT ![k] = @ + 1]
      \/ UNCHANGED <<run, use, lastOp, effects>>
  BY <1>1 DEF ResumeNeedsInput
<1>4. op \in Nat /\ lastOp \in Nat /\ claim.op \in Nat
  BY <1>0 DEF UsesShaped, ClaimShaped
<1> HIDE DEF op
<1>5. CASE UNCHANGED <<run, use, lastOp, effects>>
  <2>1. OpsOn
    BY <1>0, <1>2, <1>4, <1>5 DEF OpsOn
  <2>2. QED BY <1>0, <1>2, <1>5, <2>1, AllRest
<1>6. CASE /\ run' = [run EXCEPT ![call[e].run].st = "queued"]
           /\ use' = [use EXCEPT ![k].op = op] /\ use[k].st = "pending"
           /\ lastOp' = IF op > lastOp THEN op ELSE lastOp
           /\ effects' = [effects EXCEPT ![k] = @ + 1]
  <2>1. OpsOn
    BY <1>0, <1>2, <1>4, <1>6 DEF OpsOn
  <2>2. \A q \in Keys : q \in Runs /\ (run[q].st # "none" => run'[q].st # "none")
    BY <1>0, <1>6, RunsStay DEF Runs
  <2>3. /\ use'[k].st = use[k].st /\ \A q \in Keys : q # k => use'[q] = use[q]
        /\ \A q \in Keys : q # k => effects'[q] = effects[q]
    BY <1>0, <1>6 DEF UsesShaped
  <2>4. effects[k] \in Nat /\ effects'[k] = effects[k] + 1
    BY <1>0, <1>6 DEF OnceInv, Once
  <2>5. Once(k)'
    <3>1. "resume" \in Controls /\ "resume" \notin Creating
      BY DEF Controls, Creating
    <3>2. QED BY <1>2, <1>6, <2>3, <2>4, <3>1 DEF Once
  <2>6. ASSUME NEW q \in Keys, q # k PROVE Once(q)'
    BY <1>0, <2>1, <2>2, <2>3, <2>6, KeyRests
  <2>7. QED BY <2>1, <2>5, <2>6 DEF OnceInv, OpsOn
<1>7. QED BY <1>3, <1>5, <1>6

\* A claim is a new operation, or it is the one that was claimed.
LEMMA ClaimIsNew ==
    ASSUME WorkShaped, OnceInv, NEW a, NEW r, NEW repl, CanClaim(a, r, repl), TakeClaim(a, r, repl)
    PROVE  /\ OpsOn /\ claim'.op = ClaimOp /\ (ClaimOp = claim.op \/ ClaimOp > lastOp)
           /\ ClaimOp # 0 /\ ClaimOp \in Nat /\ ClaimOp <= lastOp'
  BY DEF WorkShaped, ClaimShaped, OnceInv, TakeClaim, ClaimOp, OpsOn

LEMMA ClaimingOnce ==
    ASSUME WorkInv, WorkShaped', OnceInv, UNCHANGED ActionOf, NEW e \in Executors,
           ClaimControl(e) \/ ClaimCancel(e)
    PROVE  OnceInv'
<1>0. WorkShaped /\ UsesShaped /\ RunsShaped /\ RunsShaped' /\ ClaimShaped
  BY DEF WorkInv, WorkShaped
<1>1. PICK a, r, repl : CanClaim(a, r, repl) /\ TakeClaim(a, r, repl)
  BY DEF ClaimControl, ClaimCancel
<1>2. /\ OpsOn /\ claim'.op = ClaimOp /\ (ClaimOp = claim.op \/ ClaimOp > lastOp)
      /\ ClaimOp # 0 /\ ClaimOp \in Nat /\ ClaimOp <= lastOp'
  BY <1>0, <1>1, ClaimIsNew
<1>3. \A q \in Keys : q \in Runs /\ (run[q].st # "none" => run'[q].st # "none")
  <2>1. run' = run \/ run' = [run EXCEPT ![repl] = NewRun]
    BY <1>1 DEF TakeClaim
  <2>2. QED BY <1>0, <2>1, RunsStay DEF Runs
<1>4. UNCHANGED effects
  BY DEF ClaimControl, ClaimCancel
<1>5. CASE ClaimCancel(e)
  BY <1>0, <1>2, <1>3, <1>4, <1>5, AllRest DEF ClaimCancel
<1>6. CASE ClaimControl(e)
  <2>1. PICK k \in Keys : k = K(e)
    BY <1>6 DEF ClaimControl, Controlling, At, WorkInv, WorkShaped, CallsShaped, K
  <2>2. /\ ActionOf[k] \in Controls /\ use[k].st = "pending" /\ use[k].op \in {0, ClaimOp}
        /\ use' = [use EXCEPT ![k].op = ClaimOp]
    BY <1>6, <2>1 DEF ClaimControl, Controlling, Act, BindOk
  <2>3. /\ use'[k].op = ClaimOp /\ use'[k].st = use[k].st
        /\ \A q \in Keys : q # k => use'[q] = use[q]
    BY <1>0, <2>2 DEF UsesShaped
  <2>4. Once(k)'
    <3>1. Once(k)
      BY DEF OnceInv
    <3>2. lastOp \in Nat /\ use[k].op \in Nat /\ claim.op \in Nat
      BY <1>0 DEF UsesShaped, ClaimShaped
    <3>3. ActionOf[k] # "resume" => effects[k] = 0
      BY <1>2, <2>2, <3>1, <3>2 DEF Once
    <3>4. ActionOf[k] \notin Creating /\ ActionOf[k] # "retry_run"
      BY <2>2 DEF Controls, Creating
    <3>5. QED BY <1>2, <1>4, <2>2, <2>3, <3>1, <3>3, <3>4 DEF Once
  <2>5. ASSUME NEW q \in Keys, q # k PROVE Once(q)'
    BY <1>0, <1>2, <1>3, <1>4, <2>3, <2>5, KeyRests
  <2>6. QED BY <1>2, <2>4, <2>5 DEF OnceInv, OpsOn
<1>7. QED BY <1>5, <1>6

LEMMA FinalizingOnce ==
    ASSUME WorkInv, WorkShaped', OnceInv, UNCHANGED ActionOf,
           RecoverClaim \/ \E e \in Executors : Finalize(e) \/ FinishCancel(e)
    PROVE  OnceInv'
<1>0. WorkShaped /\ UsesShaped /\ RunsShaped /\ RunsShaped' /\ ClaimShaped /\ DOMAIN effects = Keys
  BY DEF WorkInv, WorkShaped
<1>1. claim.op # 0 /\ FinalizeClaim /\ UNCHANGED lastOp
  BY DEF RecoverClaim, Finalize, FinishCancel, At, ClaimStands, AtClaim, WorkInv
<1>2. claim' = NoClaim /\ claim'.op = 0
  BY <1>1 DEF FinalizeClaim, NoClaim
<1>3. OpsOn
  BY <1>0, <1>1, <1>2 DEF OpsOn, ClaimShaped
<1>4. \A q \in Keys : q \in Runs /\ (run[q].st # "none" => run'[q].st # "none")
  <2>1. \/ run' = run
        \/ \E r : \E st \in {"cancelled", "interrupted", "paused", "queued", "running"} :
              run' = [run EXCEPT ![r].st = st]
        \/ run' = [r \in Runs |-> IF run[r].st \in Controllable
                                  THEN [run[r] EXCEPT !.st = "cancelled"] ELSE run[r]]
    BY <1>1 DEF FinalizeClaim
  <2>2. CASE \E r : \E st \in {"cancelled", "interrupted", "paused", "queued", "running"} :
               run' = [run EXCEPT ![r].st = st]
    BY <1>0, <2>2, RunsStay DEF Runs
  <2>3. CASE run' = [r \in Runs |-> IF run[r].st \in Controllable
                                    THEN [run[r] EXCEPT !.st = "cancelled"] ELSE run[r]]
    BY <1>0, <2>3 DEF RunsShaped, Runs
  <2>4. QED BY <2>1, <2>2, <2>3 DEF Runs
<1>5. ReceiptsStay
  <2>1. CASE use' = ReceiptsFinalized
    BY <1>0, <2>1, ReceiptsFinal DEF ReceiptsStay
  <2>2. CASE RecoverClaim
    <3>1. SUFFICES ASSUME NEW k \in Keys
                   PROVE  use'[k].op = use[k].op /\ (use[k].st # "none" => use'[k].st # "none")
      BY DEF ReceiptsStay
    <3>2. \/ use'[k] = ReceiptsFinalized[k]
          \/ use'[k] = [use[k] EXCEPT !.st = "completed", !.resp = "effect"]
      BY <2>2 DEF RecoverClaim
    <3>3. QED BY <1>0, <3>2, ReceiptsFinal DEF UsesShaped
  <2>3. QED BY <2>1, <2>2 DEF Finalize, FinishCancel
<1>6. effects' = effects \/ Counted(claim.op)
  BY <1>1 DEF FinalizeClaim
<1>7. CASE effects' = effects
  BY <1>0, <1>3, <1>4, <1>5, <1>7, AllRest DEF ReceiptsStay
<1>8. CASE Counted(claim.op)
  <2>1. ASSUME NEW k \in Keys, use[k].op = claim.op PROVE Once(k)'
    <3>1. Once(k)
      BY DEF OnceInv
    <3>2. ActionOf[k] \in Controls
      BY <1>1, <2>1, <3>1 DEF Once
    <3>3. effects'[k] = effects[k] + 1
      BY <1>8, <2>1 DEF Counted, Bound
    <3>4. ActionOf[k] # "resume" => effects[k] = 0
      BY <2>1, <3>1, <3>2 DEF Once
    <3>5. ActionOf[k] \notin Creating /\ ActionOf[k] # "retry_run"
      BY <3>2 DEF Controls, Creating
    <3>6. QED BY <1>1, <1>2, <1>5, <2>1, <3>1, <3>2, <3>3, <3>4, <3>5 DEF Once, ReceiptsStay
  <2>2. ASSUME NEW k \in Keys, use[k].op # claim.op PROVE Once(k)'
    <3>1. effects[k] \in Nat
      BY DEF OnceInv, Once
    <3>2. effects'[k] = effects[k]
      BY <1>8, <2>2, <3>1 DEF Counted, Bound
    <3>3. QED BY <1>0, <1>3, <1>4, <1>5, <3>2, KeyRests DEF ReceiptsStay
  <2>3. QED BY <1>3, <2>1, <2>2 DEF OnceInv, OpsOn
<1>9. QED BY <1>6, <1>7, <1>8

LEMMA OnceStep ==
    ASSUME WorkInv, WorkInv', OnceInv, [AwNext /\ UNCHANGED ActionOf]_awVars PROVE OnceInv'
<1>0. WorkShaped /\ WorkShaped' /\ UNCHANGED ActionOf
  BY DEF WorkInv, awVars
<1>1. CASE UNCHANGED awVars
  BY <1>1 DEF awVars, OnceInv, Once
<1>2. ASSUME NEW e \in Executors, RequestStep(e) PROVE OnceInv'
  BY <1>0, <1>2, QuietRequests, CreatingOnce, DismissingOnce, ResumingOnce, ClaimingOnce, FinalizingOnce
     DEF RequestStep
<1>3. ASSUME NEW e \in Executors, Unconfirmed(e) \/ CancelUnconfirmed(e) \/ Stumble(e) \/ Die(e)
      PROVE  OnceInv'
  BY <1>0, <1>3, QuietRequests
<1>4. ASSUME NEW e \in Executors, NEW k \in Keys, Begin(e, k) \/ RetryRun(e, k) \/ ReserveCancel(e, k)
      PROVE  OnceInv'
  BY <1>0, <1>4, QuietRequests, RetryingOnce
<1>5. ASSUME (\E k \in Keys : ExpireUse(k)) \/ ExpireClaim \/ RecoverClaim
             \/ \E r \in Runs : RunMoves(r)
      PROVE  OnceInv'
  BY <1>0, <1>5, QuietOutside, FinalizingOnce, RunMovesOnce
<1>6. QED BY <1>1, <1>2, <1>3, <1>4, <1>5 DEF AwNext

\* The action of a key takes effect at most once, for any processes, keys and actions, although
\* a receipt may be lost to another process while its first executor is only slow
\* (reserve_active_work_action, reconcile_active_work_action).  A resume is excepted (ResumesOnce).
THEOREM ActionTakesEffectOnce == AwSpec => []EffectOnce
<1>1. AwInit => WorkInv /\ OnceInv
  BY WorkStarts, OnceStarts
<1>2. WorkInv /\ OnceInv /\ [AwNext /\ UNCHANGED ActionOf]_awVars => WorkInv' /\ OnceInv'
  BY WorkStep, OnceStep
<1>3. OnceInv => EffectOnce
  BY DEF OnceInv, Once, EffectOnce
<1>4. QED BY <1>1, <1>2, <1>3, PTL DEF AwSpec

-----------------------------------------------------------------------------
(* ActiveWork: what an answer says is true.                                  *)

LEMMA LeastOf ==
    ASSUME NEW S \in SUBSET Nat, S # {}
    PROVE  \E x \in S : \A y \in S : x <= y
<1> DEFINE Below == {s \in Nat \X Nat : s[1] < s[2]}
<1>1. IsWellFoundedOn(Below, Nat)
  <2>1. Below = OpToRel(<, Nat)
    BY DEF OpToRel
  <2>2. QED BY <2>1, NatLessThanWellFounded
<1>2. \A x, y \in Nat : <<y, x>> \in Below <=> y < x
  OBVIOUS
<1> HIDE DEF Below
<1>3. PICK x \in S : \A y \in S : ~(<<y, x>> \in Below)
  BY <1>1, WFMin
<1>4. ASSUME NEW y \in S PROVE x <= y
  <2>1. x \in Nat /\ y \in Nat /\ ~(y < x)
    BY <1>2, <1>3
  <2>2. QED BY <2>1
<1>5. QED BY <1>4

\* What the rows hold.
RowsHold ==
    /\ current \in Runs /\ claim.target \in Runs
    /\ worker.outcome \in {"", "cancelled", "completion_won"}
    /\ \A r \in Runs : run[r].at \in Nat /\ run[r].at <= 1 + Cardinality(Runs)
    /\ \A k \in Keys : use[k].source \in Runs
    /\ \A e \in Executors : call[e].run \in Runs

LEMMA RunsFinite == IsFiniteSet(Runs) /\ Cardinality(Runs) \in Nat
<1>1. IsFiniteSet({0})
  BY FS_Singleton
<1>2. IsFiniteSet(Runs)
  BY <1>1, FS_Union, KeysAssumption DEF Runs
<1>3. QED BY <1>2, FS_CardinalityType

LEMMA NewRunHolds == NewRun.st = "queued" /\ NewRun.at \in Nat /\ NewRun.at <= 1 + Cardinality(Runs)
<1> DEFINE Made == Runs \ InState({"none"})
<1>1. Made \in SUBSET Runs
  OBVIOUS
<1> HIDE DEF Made
<1>2. IsFiniteSet(Made) /\ Cardinality(Made) <= Cardinality(Runs) /\ Cardinality(Made) \in Nat
  BY <1>1, RunsFinite, FS_Subset, FS_CardinalityType
<1>3. NewRun = [st |-> "queued", at |-> 1 + Cardinality(Made)]
  BY DEF NewRun, Made
<1>4. QED BY <1>2, <1>3, RunsFinite

(* The run that the delegation shows is a run: among those that are controllable there is one of
   the first rank and among these a youngest.                                *)
LEMMA SelectedIsRun ==
    ASSUME current \in Runs,
           \A r \in Runs : run[r].at \in Nat /\ run[r].at <= 1 + Cardinality(Runs)
    PROVE  /\ Selected \in Runs
           /\ run[Selected].st \notin Controllable
                 => Selected = current /\ InState(Controllable) = {}
<1> DEFINE S == InState(Controllable)
           bound == 1 + Cardinality(Runs)
<1>1. CASE S = {}
  <2>1. Selected = current
    BY <1>1 DEF Selected
  <2>2. QED BY <1>1, <2>1
<1>2. CASE S # {}
  <2>1. S \subseteq Runs
    BY DEF InState
  <2>2. bound \in Nat /\ \A r \in S : run[r].at \in Nat /\ run[r].at <= bound
    BY <2>1, RunsFinite
  <2>3. \A s : Rank(s) \in Nat
    BY DEF Rank
  <2> DEFINE Best(r) == \A q \in S : \/ Rank(run[r].st) < Rank(run[q].st)
                                     \/ Rank(run[r].st) = Rank(run[q].st) /\ run[r].at >= run[q].at
             Ranks == {Rank(run[r].st) : r \in S}
  <2>4. PICK m \in Ranks : \A y \in Ranks : m <= y
    <3>1. Ranks \in SUBSET Nat /\ Ranks # {}
      BY <1>2, <2>3
    <3> HIDE DEF Ranks
    <3>2. QED BY <3>1, LeastOf
  <2> DEFINE T == {r \in S : Rank(run[r].st) = m}
             Ages == {bound - run[r].at : r \in T}
  <2>5. T # {}
    BY <2>4
  <2>6. PICK a \in Ages : \A y \in Ages : a <= y
    <3>1. Ages \in SUBSET Nat /\ Ages # {}
      <4> HIDE DEF S, bound
      <4>1. \A r \in T : bound - run[r].at \in Nat
        BY <2>2
      <4>2. QED BY <2>5, <4>1
    <3> HIDE DEF Ages
    <3>2. QED BY <3>1, LeastOf
  <2>7. PICK r \in T : a = bound - run[r].at
    BY <2>6
  <2>8. Best(r)
    <3> SUFFICES ASSUME NEW q \in S
                 PROVE  \/ Rank(run[r].st) < Rank(run[q].st)
                        \/ Rank(run[r].st) = Rank(run[q].st) /\ run[r].at >= run[q].at
      OBVIOUS
    <3> HIDE DEF S, bound
    <3>1. Rank(run[q].st) \in Nat /\ Rank(run[r].st) = m /\ m <= Rank(run[q].st) /\ m \in Nat
      BY <2>3, <2>4, <2>7
    <3>2. CASE Rank(run[q].st) = m
      <4>1. bound - run[r].at <= bound - run[q].at
        BY <2>6, <2>7, <3>2
      <4>2. run[r].at \in Nat /\ run[q].at \in Nat /\ bound \in Nat
        BY <2>2, <2>7
      <4>3. run[r].at >= run[q].at
        BY <4>1, <4>2
      <4>4. QED BY <3>1, <3>2, <4>3
    <3>3. CASE Rank(run[q].st) # m
      BY <3>1, <3>3
    <3>4. QED BY <3>2, <3>3
  <2>9. Selected = CHOOSE x \in S : Best(x)
    BY <1>2 DEF Selected
  <2>10. r \in S
    BY <2>7
  <2>11. Selected \in S
    <3> HIDE DEF S, Best
    <3>1. QED BY <2>8, <2>9, <2>10
  <2>12. QED BY <2>1, <2>11 DEF InState
<1>3. QED BY <1>1, <1>2

\* The outcomes of operations: what is recorded of one is over, and says one thing.
Effective == {"paused", "resumed", "readmitted", "interrupted", "cancelled"}
Lost(op) == <<op, "terminal_won">> \in proven \/ <<op, "completion_won">> \in proven
OutcomesKnown ==
    \A x \in proven : /\ x[1] \in Nat /\ x[1] # 0 /\ x[1] <= lastOp /\ x[1] # claim.op
                      /\ x[2] \in Effective => ~Lost(x[1])

\* The run that a steer puts in place waits for its claim; what is being resumed is paused.
ClaimTrue ==
    /\ claim.op = 0 \/ claim.act # "steer" => claim.repl = 0
    /\ claim.op # 0 /\ claim.act = "steer" =>
          /\ claim.repl \in Keys /\ claim.repl # claim.target
          /\ run[claim.repl].st \in {"queued", "cancelled"}
    /\ claim.op # 0 => run[claim.target].st # "none"
    /\ claim.op # 0 /\ claim.act = "resume" => run[claim.target].st = "paused"

\* The run of a key, or the operation its receipt is bound to, tells whether it took effect.
ClaimIsOf(k) ==
    /\ claim.act = ActionOf[k] /\ claim.target = use[k].source
    /\ claim.act = "steer" => claim.repl = k
Overtaken(k) == Lost(use[k].op)
KeyTrue(k) ==
    /\ use[k].op <= lastOp
    /\ ActionOf[k] \in Creating \cup {"retry_run"} /\ run[k].st # "none" => effects[k] # 0
    /\ ActionOf[k] = "steer" /\ run[k].st # "none" => use[k].op # 0
    /\ use[k].op # 0 /\ use[k].op = claim.op => ClaimIsOf(k)
    /\ use[k].op # 0 /\ use[k].op # claim.op => effects[k] # 0 \/ Overtaken(k)
    /\ Overtaken(k) =>
          /\ effects[k] = 0 /\ ActionOf[k] # "resume"
          /\ ActionOf[k] = "steer" => run[k].st = "cancelled" /\ run[use[k].source].st \in OverStates

ReceiptTrue(k) ==
    /\ use[k].resp = "effect" => TookEffect(k)
    /\ use[k].resp = "terminal_won" => Overtaken(k)

\* What a process knows at each place of a request while the receipt is its own.
Ours(e) == use[K(e)].st = "pending" /\ use[K(e)].exec = e
CallTrue(e) ==
    /\ call[e].pc \in {"cancel", "cancelling", "cancelled"} => Act(e) = "cancel_run"
    /\ call[e].pc \in {"reserved", "exec"} /\ Ours(e) /\ Act(e) = "steer" /\ use[K(e)].op # 0
          => use[K(e)].op # claim.op
    /\ call[e].pc = "exec" /\ Ours(e) /\ Act(e) = "steer" /\ use[K(e)].op # 0 => effects[K(e)] # 0
    /\ call[e].pc = "claimed" => use[K(e)].op = claim.op
    /\ call[e].pc = "answer" /\ Ours(e) =>
          /\ call[e].res = "effect" => TookEffect(K(e))
          /\ call[e].res = "terminal_won" => Overtaken(K(e))

KeysTrue == \A k \in Keys : KeyTrue(k)
ReceiptsTrue == \A k \in Keys : ReceiptTrue(k)
CallsTrue == \A e \in Executors : CallTrue(e)
AnswersInv == RowsHold /\ OutcomesKnown /\ ClaimTrue /\ KeysTrue /\ ReceiptsTrue /\ CallsTrue

\* A bound receipt fails with a stop only, whose tombstone then refuses it for good.
FenceInv ==
    \A k \in Keys : use[k].st = "failed" =>
        use[k].op = 0 \/ (worker.stop # 0 /\ ActionOf[k] \in Controls \ {"stop"})

\* What is known before a step.
Known == WorkInv /\ OnceInv /\ AnswersInv /\ FenceInv

LEMMA AnswersStart == ASSUME AwInit PROVE AnswersInv
<1>1. PICK s \in FirstStates :
        /\ run = [r \in Runs |-> IF r = 0 THEN [st |-> s, at |-> 1] ELSE [st |-> "none", at |-> 0]]
        /\ worker = [st |-> IF s = "paused" THEN "paused" ELSE "ready", stop |-> 0,
                     outcome |-> ""]
  BY DEF AwInit
<1>2. /\ claim.op = 0 /\ claim.repl = 0 /\ claim.target = 0 /\ lastOp = 0 /\ proven = {}
      /\ current = 0 /\ worker.outcome = ""
  BY <1>1 DEF AwInit, NoClaim
<1>3. \A k \in Keys : /\ use[k].op = 0 /\ use[k].st = "none" /\ use[k].source = 0
                      /\ use[k].resp = "" /\ effects[k] = 0
  BY DEF AwInit, NoUse
<1>4. \A e \in Executors : call[e].pc = "idle" /\ call[e].run = 0
  BY DEF AwInit, NoCall
<1>5. 0 \in Runs /\ \A k \in Keys : k \in Runs /\ k # 0
  BY KeysAssumption DEF Runs
<1>6. RowsHold
  <2>1. \A r \in Runs : run[r].at \in {0, 1}
    BY <1>1
  <2>2. \A r \in Runs : run[r].at \in Nat /\ run[r].at <= 1 + Cardinality(Runs)
    BY <2>1, RunsFinite
  <2>3. QED BY <1>2, <1>3, <1>4, <1>5, <2>2 DEF RowsHold
<1>7. OutcomesKnown /\ ClaimTrue
  BY <1>2 DEF OutcomesKnown, ClaimTrue
<1>8. KeysTrue
  <2>1. \A k \in Keys : run[k].st = "none" /\ ~Overtaken(k)
    BY <1>1, <1>2, <1>5 DEF Overtaken, Lost
  <2>2. ASSUME NEW k \in Keys PROVE KeyTrue(k)
    <3>1. use[k].op = 0 /\ lastOp = 0 /\ run[k].st = "none" /\ ~Overtaken(k)
      BY <1>2, <1>3, <2>1
    <3>2. QED BY <3>1 DEF KeyTrue
  <2>3. QED BY <2>2 DEF KeysTrue
<1>9. ReceiptsTrue
  BY <1>3 DEF ReceiptsTrue, ReceiptTrue
<1>10. CallsTrue
  BY <1>4 DEF CallsTrue, CallTrue
<1>11. QED BY <1>6, <1>7, <1>8, <1>9, <1>10 DEF AnswersInv

-----------------------------------------------------------------------------
\* What every step keeps: a run that is over stays so, a receipt stays bound, an effect stays.
StepOn ==
    /\ OpsOn /\ UNCHANGED ActionOf /\ proven \subseteq proven' /\ (dismissed => dismissed')
    /\ \A r \in Runs : run[r].st \in OverStates => run'[r].st = run[r].st
    /\ \A k \in Keys : /\ use[k].op # 0 => use'[k].op = use[k].op /\ use'[k].source = use[k].source
                       /\ effects[k] # 0 => effects'[k] # 0

LEMMA OvertakenIsBound ==
    ASSUME Known, NEW k \in Keys, Overtaken(k)
    PROVE  use[k].op # 0 /\ use[k].op # claim.op /\ use[k].op <= lastOp
  BY DEF Known, AnswersInv, OutcomesKnown, Overtaken, Lost

LEMMA TruthStays ==
    ASSUME Known, OnceInv', StepOn, NEW k \in Keys
    PROVE  /\ Overtaken(k) => Overtaken(k)'
           /\ TookEffect(k) => TookEffect(k)'
<1>1. ASSUME Overtaken(k) PROVE Overtaken(k)'
  <2>1. use'[k].op = use[k].op
    BY <1>1, OvertakenIsBound DEF StepOn
  <2>2. QED BY <1>1, <2>1 DEF StepOn, Overtaken, Lost
<1>2. ASSUME TookEffect(k) PROVE TookEffect(k)'
  <2>1. effects[k] \in Nat /\ effects'[k] \in Nat
    BY DEF Known, OnceInv, Once
  <2>2. QED BY <1>2, <2>1 DEF StepOn, TookEffect
<1>3. QED BY <1>1, <1>2

\* A receipt that is not answered in this step.
LEMMA ReceiptStays ==
    ASSUME Known, OnceInv', StepOn, NEW k \in Keys,
           use'[k].resp \in {use[k].resp, ""}
    PROVE  ReceiptTrue(k)'
<1>1. ReceiptTrue(k)
  BY DEF Known, AnswersInv, ReceiptsTrue
<1>2. QED BY <1>1, TruthStays DEF ReceiptTrue

\* A process that another one's step leaves where it is: its receipt is its own as before.
LEMMA CallStays ==
    ASSUME Known, OnceInv', StepOn, NEW e \in Executors, call'[e] = call[e],
           call[e].pc # "idle" /\ Ours(e)' => Ours(e) /\ use'[K(e)].op = use[K(e)].op,
           call[e].pc = "claimed" => use[K(e)].op # 0 /\ claim'.op = claim.op
    PROVE  CallTrue(e)'
<1>0. CallTrue(e) /\ (call[e].pc # "idle" => K(e) \in Keys) /\ K(e)' = K(e) /\ Act(e)' = Act(e)
  BY DEF Known, AnswersInv, CallsTrue, WorkInv, WorkShaped, CallsShaped, K, Act, StepOn
<1>1. CASE call[e].pc = "idle"
  BY <1>1 DEF CallTrue
<1>2. CASE call[e].pc # "idle"
  <2> DEFINE k == K(e)
  <2>1. k \in Keys /\ K(e)' = k
    BY <1>0, <1>2
  <2>2. /\ Overtaken(k) => Overtaken(k)'
        /\ TookEffect(k) => TookEffect(k)'
        /\ effects[k] # 0 => effects'[k] # 0
    BY <2>1, TruthStays DEF StepOn
  <2>3. use[k].op # 0 => use'[k].op = use[k].op
    BY <2>1 DEF StepOn
  <2>4. /\ claim'.op \in {0, claim.op} \/ claim'.op > lastOp
        /\ use[k].op <= lastOp /\ use[k].op \in Nat /\ lastOp \in Nat /\ claim'.op \in Nat
    BY <2>1 DEF StepOn, OpsOn, Known, AnswersInv, KeysTrue, KeyTrue, WorkInv, WorkShaped, UsesShaped,
                ClaimShaped
  <2>5. use[k].op # 0 /\ use[k].op # claim.op => use[k].op # claim'.op
    BY <2>4
  <2>6. ASSUME call[e].pc = "answer", Ours(e)'
        PROVE  /\ call[e].res = "effect" => TookEffect(k)'
               /\ call[e].res = "terminal_won" => Overtaken(k)'
    BY <1>0, <1>2, <2>2, <2>6 DEF CallTrue
  <2>7. CASE call[e].pc = "answer"
    BY <2>1, <2>6, <2>7 DEF CallTrue, K, Overtaken, TookEffect
  <2>8. CASE call[e].pc # "answer"
    BY <1>0, <1>2, <2>1, <2>2, <2>3, <2>5, <2>8 DEF CallTrue
  <2>9. QED BY <2>7, <2>8
<1>3. QED BY <1>1, <1>2

-----------------------------------------------------------------------------
(* The steps of a request that leave the ledger alone.                       *)

\* They bind no receipt, and whoever they give one to is the process itself.
ReceiptQuiet(e, k) ==
    /\ use'[k].op = use[k].op /\ use'[k].source \in Runs
    /\ use[k].op # 0 => use'[k].source = use[k].source
    /\ use'[k].st = "failed" => use[k].st = "failed" \/ use[k].op = 0
    /\ \/ use'[k].resp \in {use[k].resp, ""}
       \/ k = K(e) /\ Ours(e) /\ call[e].pc = "answer" /\ use'[k].resp = call[e].res
    /\ use'[k].st = "pending" =>
          use'[k].exec = e \/ (use[k].st = "pending" /\ use'[k].exec = use[k].exec)

Quiet(e) ==
    \/ Reserve(e) \/ FailUnbound(e) \/ Reconcile(e) \/ ReadLive(e) \/ ClaimRefused(e)
    \/ Unconfirmed(e) \/ Finish(e) \/ Fail(e) \/ Stumble(e) \/ CancelRefused(e)
    \/ CancelUnconfirmed(e) \/ SettleCancel(e) \/ Die(e)
    \/ \E k \in Keys : Begin(e, k) \/ ReserveCancel(e, k)

LEMMA ReceiptUntouched ==
    ASSUME Known, NEW e, NEW k \in Keys, use'[k] = use[k] PROVE ReceiptQuiet(e, k)
  BY DEF Known, AnswersInv, RowsHold, ReceiptQuiet

\* A receipt whose state and owner change.
LEMMA ReceiptPassed ==
    ASSUME Known, NEW e, NEW j, NEW k \in Keys
    PROVE  /\ \A st : (use' = [use EXCEPT ![j].st = st] /\ st # "pending"
                       /\ (k = j /\ st = "failed" => use[k].op = 0)) => ReceiptQuiet(e, k)
           /\ \A st, x : (use' = [use EXCEPT ![j].st = st, ![j].live = x]
                          /\ st \notin {"pending", "failed"}) => ReceiptQuiet(e, k)
           /\ \A x : use' = [use EXCEPT ![j].st = "pending", ![j].exec = e, ![j].live = x]
                        => ReceiptQuiet(e, k)
<1>0. UsesShaped /\ use[k].source \in Runs
  BY DEF Known, WorkInv, WorkShaped, AnswersInv, RowsHold
<1>1. ASSUME NEW st, use' = [use EXCEPT ![j].st = st], st # "pending",
             k = j /\ st = "failed" => use[k].op = 0
      PROVE  ReceiptQuiet(e, k)
  BY <1>0, <1>1 DEF UsesShaped, ReceiptQuiet
<1>2. ASSUME NEW st, NEW x, use' = [use EXCEPT ![j].st = st, ![j].live = x],
             st \notin {"pending", "failed"}
      PROVE  ReceiptQuiet(e, k)
  BY <1>0, <1>2 DEF UsesShaped, ReceiptQuiet
<1>3. ASSUME NEW x, use' = [use EXCEPT ![j].st = "pending", ![j].exec = e, ![j].live = x]
      PROVE  ReceiptQuiet(e, k)
  BY <1>0, <1>3 DEF UsesShaped, ReceiptQuiet
<1>4. QED BY <1>1, <1>2, <1>3

LEMMA ReceiptsOfQuiet ==
    ASSUME Known, NEW e \in Executors, Quiet(e), NEW k \in Keys
    PROVE  ReceiptQuiet(e, k)
<1>0. UsesShaped /\ Once(k) /\ Selected \in Runs /\ use[k].source \in Runs
  BY SelectedIsRun DEF Known, WorkInv, WorkShaped, OnceInv, AnswersInv, RowsHold
<1>1. CASE \/ Reconcile(e) \/ ReadLive(e) \/ ClaimRefused(e) \/ Unconfirmed(e) \/ CancelRefused(e)
           \/ \E j \in Keys : Begin(e, j)
  BY <1>1, ReceiptUntouched
     DEF Reconcile, ReadLive, ClaimRefused, Unconfirmed, CancelRefused, Begin
<1>2. CASE Reserve(e)
  <2> DEFINE j == K(e)
  <2>1. \/ UNCHANGED use
        \/ /\ use[j].st = "none"
           /\ use' = [use EXCEPT ![j] = [NoUse EXCEPT !.st = "pending", !.source = Selected,
                                                      !.exec = e, !.live = TRUE]]
        \/ use' = [use EXCEPT ![j].st = "pending", ![j].exec = e, ![j].live = TRUE]
    BY <1>2 DEF Reserve, Own
  <2> HIDE DEF j
  <2>2. CASE UNCHANGED use
    BY <2>2, ReceiptUntouched
  <2>3. CASE /\ use[j].st = "none"
             /\ use' = [use EXCEPT ![j] = [NoUse EXCEPT !.st = "pending", !.source = Selected,
                                                        !.exec = e, !.live = TRUE]]
    <3>1. k # j => use'[k] = use[k]
      BY <1>0, <2>3 DEF UsesShaped
    <3>2. k = j => /\ use'[k].op = 0 /\ use[k].op = 0 /\ use'[k].source = Selected
                   /\ use'[k].st = "pending" /\ use'[k].resp = "" /\ use'[k].exec = e
      BY <1>0, <2>3 DEF UsesShaped, NoUse, Once
    <3>3. QED BY <1>0, <3>1, <3>2, ReceiptUntouched DEF ReceiptQuiet
  <2>4. CASE use' = [use EXCEPT ![j].st = "pending", ![j].exec = e, ![j].live = TRUE]
    BY <2>4, ReceiptPassed
  <2>5. QED BY <2>1, <2>2, <2>3, <2>4
<1>3. CASE FailUnbound(e)
  <2>1. UNCHANGED use \/ use' = [use EXCEPT ![K(e)].st = "refused", ![K(e)].live = FALSE]
    BY <1>3 DEF FailUnbound
  <2>2. \/ UNCHANGED use
        \/ \E st, x : use' = [use EXCEPT ![K(e)].st = st, ![K(e)].live = x]
                      /\ st \notin {"pending", "failed"}
    BY <2>1
  <2>3. QED BY <2>2, ReceiptPassed, ReceiptUntouched
<1>4. CASE Finish(e)
  <2>1. CASE UNCHANGED use
    BY <2>1, ReceiptUntouched
  <2>2. CASE ~UNCHANGED use
    <3>1. Ours(e) /\ call[e].pc = "answer"
      BY <1>4, <2>2 DEF Finish, Ours, At
    <3>2. use' = [use EXCEPT ![K(e)].st = "completed", ![K(e)].resp = call[e].res]
      BY <1>4, <2>2 DEF Finish
    <3>3. k # K(e) => use'[k] = use[k]
      BY <1>0, <3>2 DEF UsesShaped
    <3>4. k = K(e) => /\ use'[k].op = use[k].op /\ use'[k].source = use[k].source
                      /\ use'[k].st = "completed" /\ use'[k].resp = call[e].res
      BY <1>0, <3>2 DEF UsesShaped
    <3>5. QED BY <1>0, <3>1, <3>3, <3>4, ReceiptUntouched DEF ReceiptQuiet
  <2>3. QED BY <2>1, <2>2
<1>5. CASE Fail(e) \/ SettleCancel(e)
  <2>1. \/ UNCHANGED use
        \/ \E st \in {"refused", "accepted", "conflict"} : use' = [use EXCEPT ![K(e)].st = st]
    BY <1>5 DEF Fail, SettleCancel
  <2>2. QED BY <2>1, ReceiptPassed, ReceiptUntouched
<1>6. CASE Stumble(e)
  <2>1. UNCHANGED use \/ (use[K(e)].op = 0 /\ use' = [use EXCEPT ![K(e)].st = "failed"])
    BY <1>6 DEF Stumble
  <2>2. QED BY <2>1, ReceiptPassed, ReceiptUntouched
<1>7. CASE CancelUnconfirmed(e)
  <2>1. \E st \in {"executing", "failed"} : use' = [use EXCEPT ![K(e)].st = st]
    BY <1>7 DEF CancelUnconfirmed
  <2>2. k = K(e) => use[k].op = 0
    <3>1. Act(e) = "cancel_run"
      BY <1>7 DEF CancelUnconfirmed, At, Known, AnswersInv, CallsTrue, CallTrue
    <3>2. QED BY <1>0, <3>1 DEF Act, Once, Controls
  <2>3. QED BY <2>1, <2>2, ReceiptPassed
<1>8. CASE Die(e)
  <2>1. use'[k] = use[k] \/ use'[k] = [use[k] EXCEPT !.live = FALSE]
    BY <1>8 DEF Die
  <2>2. QED BY <1>0, <2>1 DEF UsesShaped, ReceiptQuiet
<1>9. CASE \E j \in Keys : ReserveCancel(e, j)
  <2>1. PICK j \in Keys : ReserveCancel(e, j)
    BY <1>9
  <2>2. \/ \E st, x : use' = [use EXCEPT ![j].st = st, ![j].live = x] /\ st \notin {"pending", "failed"}
        \/ \E st \in {"conflict", "accepted"} : use' = [use EXCEPT ![j].st = st]
    BY <2>1 DEF ReserveCancel
  <2>3. QED BY <2>2, ReceiptPassed
<1>10. QED BY <1>1, <1>2, <1>3, <1>4, <1>5, <1>6, <1>7, <1>8, <1>9 DEF Quiet

LEMMA QuietStep ==
    ASSUME Known, UNCHANGED ActionOf, NEW e \in Executors, Quiet(e)
    PROVE  /\ UNCHANGED <<run, dismissed, worker, claim, lastOp, proven, effects>>
           /\ StepOn
<1>1. UNCHANGED <<run, dismissed, worker, claim, lastOp, proven, effects>>
  BY DEF Quiet, Reserve, FailUnbound, Reconcile, ReadLive, ClaimRefused, Unconfirmed, Finish, Fail,
         Stumble, CancelRefused, CancelUnconfirmed, SettleCancel, Die, Begin, ReserveCancel, ledger
<1>2. OpsOn
  BY <1>1 DEF OpsOn, Known, WorkInv, WorkShaped, ClaimShaped, OnceInv
<1>3. \A k \in Keys : use[k].op # 0 => use'[k].op = use[k].op /\ use'[k].source = use[k].source
  BY ReceiptsOfQuiet DEF ReceiptQuiet
<1>4. QED BY <1>1, <1>2, <1>3 DEF StepOn

\* The ledger's part of the invariant does not depend on receipts that are not bound.
LEMMA LedgerStays ==
    ASSUME Known, UNCHANGED <<ActionOf, run, claim, lastOp, proven, effects>>, StepOn,
           \A k \in Keys : use'[k].op = use[k].op
    PROVE  OutcomesKnown' /\ ClaimTrue' /\ KeysTrue'
<1>0. OutcomesKnown /\ ClaimTrue /\ KeysTrue
  BY DEF Known, AnswersInv
<1>1. OutcomesKnown'
  BY <1>0 DEF OutcomesKnown, Lost
<1>2. ClaimTrue'
  BY <1>0 DEF ClaimTrue
<1>3. ASSUME NEW k \in Keys PROVE KeyTrue(k)'
  <2>1. KeyTrue(k)
    BY <1>0 DEF KeysTrue
  <2>2. Overtaken(k)' = Overtaken(k)
    BY DEF Overtaken, Lost
  <2>3. use'[k].op = use[k].op /\ (use[k].op # 0 => use'[k].source = use[k].source)
    BY DEF StepOn
  <2>4. Overtaken(k) => use[k].op # 0
    BY OvertakenIsBound
  <2>5. QED BY <2>1, <2>2, <2>3, <2>4 DEF KeyTrue, ClaimIsOf
<1>4. QED BY <1>1, <1>2, <1>3 DEF KeysTrue

LEMMA QuietReceipts ==
    ASSUME Known, OnceInv', UNCHANGED ActionOf, NEW e \in Executors, Quiet(e) PROVE ReceiptsTrue'
<1>0. StepOn
  BY QuietStep
<1> SUFFICES ASSUME NEW k \in Keys PROVE ReceiptTrue(k)'
  BY DEF ReceiptsTrue
<1>1. ReceiptQuiet(e, k) /\ ReceiptTrue(k)
  BY ReceiptsOfQuiet DEF Known, AnswersInv, ReceiptsTrue
<1>3. CASE use'[k].resp \in {use[k].resp, ""}
  BY <1>0, <1>3, ReceiptStays
<1>4. CASE k = K(e) /\ Ours(e) /\ call[e].pc = "answer" /\ use'[k].resp = call[e].res
  <2>1. /\ use'[k].resp = "effect" => TookEffect(k)
        /\ use'[k].resp = "terminal_won" => Overtaken(k)
    BY <1>4 DEF Known, AnswersInv, CallsTrue, CallTrue
  <2>2. QED BY <1>0, <2>1, TruthStays DEF ReceiptTrue
<1>5. QED BY <1>1, <1>3, <1>4 DEF ReceiptQuiet

(* The calls of the others.                                                  *)
LEMMA QuietOthers ==
    ASSUME Known, OnceInv', UNCHANGED ActionOf, NEW e \in Executors, Quiet(e),
           NEW d \in Executors, d # e
    PROVE  call'[d] = call[d] /\ CallTrue(d)'
<1>0. CallsShaped /\ CallTrue(d) /\ StepOn /\ UNCHANGED claim
  BY QuietStep DEF Known, WorkInv, WorkShaped, AnswersInv, CallsTrue
<1>1. call'[d] = call[d]
  <2>1. \/ Reply(e) \/ (\E r, res, adv : Answer(e, r, res, adv)) \/ (\E p : Goto(e, p))
        \/ (\E x : call' = [call EXCEPT ![e] = x]) \/ UNCHANGED call
        \/ call' = [call EXCEPT ![e].pc = "exec", ![e].run = Selected, ![e].st = run[Selected].st]
    BY DEF Quiet, Reserve, Readmit, FailUnbound, Reconcile, ReadLive, ClaimRefused, Unconfirmed, Finish,
           Fail, Stumble, CancelRefused, CancelUnconfirmed, SettleCancel, Die, Begin, ReserveCancel
  <2>2. QED BY <1>0, <2>1 DEF Reply, Answer, Goto, CallsShaped
<1>2. ASSUME call[d].pc # "idle", Ours(d)' PROVE Ours(d) /\ use'[K(d)].op = use[K(d)].op
  <2>1. K(d) \in Keys /\ K(d)' = K(d)
    BY <1>0, <1>1, <1>2 DEF CallsShaped, K
  <2>2. ReceiptQuiet(e, K(d))
    BY <2>1, ReceiptsOfQuiet
  <2>3. QED BY <1>2, <2>1, <2>2 DEF Ours, ReceiptQuiet
<1>3. call[d].pc = "claimed" => use[K(d)].op # 0 /\ claim'.op = claim.op
  BY <1>0 DEF CallTrue, Known, WorkInv, ClaimStands, AtClaim
<1>4. CallTrue(d)'
  BY <1>0, <1>1, <1>2, <1>3, CallStays
<1>5. QED BY <1>1, <1>4

(* What the ledger proves of an action is true.                              *)
LEMMA ReconciledIsTrue ==
    ASSUME Known, NEW k \in Keys
    PROVE  /\ Reconciled(k).run \in Runs
           /\ Reconciled(k).res = "effect" => TookEffect(k)
           /\ Reconciled(k).res = "terminal_won" => Overtaken(k)
<1> DEFINE src == use[k].source
<1>0. KeyTrue(k) /\ OutcomesKnown /\ worker.outcome \in {"", "cancelled", "completion_won"}
  BY DEF Known, AnswersInv, KeysTrue, RowsHold
<1>1. k \in Runs /\ src \in Runs /\ 0 \in Runs
  BY DEF Known, AnswersInv, RowsHold, Runs
<1>2. effects[k] # 0 => TookEffect(k)
  <2>1. effects[k] \in Nat
    BY DEF Known, OnceInv, Once
  <2>2. QED BY <2>1 DEF TookEffect
<1>3. ASSUME NEW ev \in Effective, Proves(k, ev) PROVE effects[k] # 0
  BY <1>0, <1>3 DEF Proves, OutcomesKnown, Overtaken, KeyTrue
<1>4. Proves(k, "terminal_won") \/ Proves(k, "completion_won") => Overtaken(k)
  BY DEF Proves, Overtaken, Lost
<1>5. Reconciled(k).run \in {0, k, src}
  BY DEF Reconciled, Outcome, Unknown
<1>6. \/ Reconciled(k).res = ""
      \/ ActionOf[k] \in Creating /\ run[k].st # "none" /\ Reconciled(k).res = "effect"
      \/ Proves(k, "terminal_won") /\ Reconciled(k).res = "terminal_won"
      \/ run[src].st = "interrupted" /\ Proves(k, run[src].st) /\ Reconciled(k).res = "effect"
      \/ run[src].st = "cancelled" /\ Proves(k, run[src].st) /\ Reconciled(k).res = "effect"
      \/ Proves(k, "paused") /\ Reconciled(k).res = "effect"
      \/ (Proves(k, "resumed") \/ Proves(k, "readmitted")) /\ Reconciled(k).res = "effect"
      \/ /\ Proves(k, worker.outcome) /\ worker.outcome = "cancelled" /\ Reconciled(k).res = "effect"
      \/ /\ Proves(k, worker.outcome) /\ worker.outcome \notin {"", "cancelled"}
         /\ Reconciled(k).res = "terminal_won"
      \/ ActionOf[k] = "dismiss" /\ dismissed /\ Reconciled(k).res = "effect"
  <2>1. CASE ClaimedFor(k)
    BY <2>1 DEF Reconciled, Outcome, Unknown
  <2>2. CASE ~ClaimedFor(k) /\ ActionOf[k] \in Creating
    BY <2>2 DEF Reconciled, Outcome, Unknown, Creating
  <2>3. CASE ~ClaimedFor(k) /\ ActionOf[k] = "steer"
    <3>1. \/ Reconciled(k).res = ""
          \/ Proves(k, "terminal_won") /\ Reconciled(k).res = "terminal_won"
          \/ /\ run[src].st \in {"interrupted", "cancelled"} /\ Proves(k, run[src].st)
             /\ Reconciled(k).res = "effect"
      BY <2>3 DEF Reconciled, Outcome, Unknown, Creating
    <3>2. QED BY <3>1
  <2>4. CASE ~ClaimedFor(k) /\ ActionOf[k] \in {"pause", "resume"}
    <3>1. \/ Reconciled(k).res = ""
          \/ Proves(k, "terminal_won") /\ Reconciled(k).res = "terminal_won"
          \/ Proves(k, "paused") /\ Reconciled(k).res = "effect"
          \/ (Proves(k, "resumed") \/ Proves(k, "readmitted")) /\ Reconciled(k).res = "effect"
      <4>1. CASE ActionOf[k] = "pause"
        BY <2>4, <4>1 DEF Reconciled, Outcome, Unknown, Creating
      <4>2. CASE ActionOf[k] = "resume"
        BY <2>4, <4>2 DEF Reconciled, Outcome, Unknown, Creating
      <4>3. QED BY <2>4, <4>1, <4>2
    <3>2. QED BY <3>1
  <2>5. CASE ~ClaimedFor(k) /\ ActionOf[k] = "stop"
    BY <2>5 DEF Reconciled, Outcome, Unknown, Creating
  <2>6. CASE ~ClaimedFor(k) /\ ActionOf[k] = "dismiss"
    BY <2>6 DEF Reconciled, Outcome, Unknown, Creating
  <2>7. CASE /\ ~ClaimedFor(k)
             /\ ActionOf[k] \notin Creating \cup {"steer", "pause", "resume", "stop", "dismiss"}
    BY <2>7 DEF Reconciled, Outcome, Unknown, Creating
  <2>8. QED BY <2>1, <2>2, <2>3, <2>4, <2>5, <2>6, <2>7
<1>7. ActionOf[k] \in Creating /\ run[k].st # "none" => TookEffect(k)
  BY <1>0, <1>2 DEF KeyTrue
<1>8. ActionOf[k] = "dismiss" /\ dismissed => TookEffect(k)
  BY DEF TookEffect
<1>9. \A ev \in Effective : Proves(k, ev) => TookEffect(k)
  BY <1>2, <1>3
<1>10. QED BY <1>0, <1>1, <1>4, <1>5, <1>6, <1>7, <1>8, <1>9 DEF Effective

(* The call of the process itself.                                           *)
LEMMA CallGoes ==
    ASSUME Known, NEW e \in Executors
    PROVE  /\ \A p : Goto(e, p) => call'[e].pc = p /\ call'[e].key = call[e].key /\ call'[e].run = 0
           /\ Reply(e) => call'[e].pc = "idle" /\ call'[e].run = 0
           /\ \A r, res, adv : Answer(e, r, res, adv)
                 => /\ call'[e].pc = "answer" /\ call'[e].key = call[e].key
                    /\ call'[e].run = r /\ call'[e].res = res
<1>0. CallsShaped
  BY DEF Known, WorkInv, WorkShaped
<1>1. ASSUME NEW p, Goto(e, p)
      PROVE  call'[e].pc = p /\ call'[e].key = call[e].key /\ call'[e].run = 0
  BY <1>0, <1>1 DEF CallsShaped, Goto, NoCall
<1>2. ASSUME Reply(e) PROVE call'[e].pc = "idle" /\ call'[e].run = 0
  BY <1>0, <1>2 DEF CallsShaped, Reply, NoCall
<1>3. ASSUME NEW r, NEW res, NEW adv, Answer(e, r, res, adv)
      PROVE  /\ call'[e].pc = "answer" /\ call'[e].key = call[e].key
             /\ call'[e].run = r /\ call'[e].res = res
  BY <1>0, <1>3 DEF CallsShaped, Answer, NoCall
<1>4. QED BY <1>1, <1>2, <1>3

Aside == {"idle", "read", "unbound", "takeover", "observe", "failing"}

LEMMA AsideIsTrue == ASSUME NEW e, call'[e].pc \in Aside PROVE CallTrue(e)'
  BY DEF CallTrue, Aside

LEMMA AnswerIsTrue ==
    ASSUME NEW e \in Executors, NEW k \in Keys, K(e) = k,
           call'[e].pc = "answer", call'[e].key = call[e].key,
           Ours(e)' => /\ call'[e].res = "effect" => TookEffect(k)'
                       /\ call'[e].res = "terminal_won" => Overtaken(k)'
    PROVE  CallTrue(e)'
<1>1. K(e)' = k
  BY DEF K
<1>2. QED BY <1>1 DEF CallTrue, TookEffect, Overtaken

\* What is true of the key before the step is enough.
LEMMA AnswerStaysTrue ==
    ASSUME Known, OnceInv', StepOn, NEW e \in Executors, K(e) \in Keys,
           call'[e].pc = "answer", call'[e].key = call[e].key,
           Ours(e)' => /\ call'[e].res = "effect" => TookEffect(K(e))
                       /\ call'[e].res = "terminal_won" => Overtaken(K(e))
    PROVE  CallTrue(e)'
<1>1. PICK k \in Keys : K(e) = k /\ K(e)' = k
  BY DEF K
<1>2. /\ Overtaken(k) => Overtaken(k)'
      /\ TookEffect(k) => TookEffect(k)'
  BY TruthStays
<1>3. Ours(e)' => /\ call'[e].res = "effect" => TookEffect(k)'
                  /\ call'[e].res = "terminal_won" => Overtaken(k)'
  BY <1>1, <1>2
<1>4. QED BY <1>1, <1>3 DEF CallTrue, TookEffect, Overtaken

LEMMA CallOfQuiet ==
    ASSUME Known, OnceInv', UNCHANGED ActionOf, NEW e \in Executors, Quiet(e)
    PROVE  call'[e].run \in Runs /\ CallTrue(e)'
<1>0. /\ CallsShaped /\ StepOn /\ RowsHold /\ CallTrue(e) /\ Selected \in Runs /\ 0 \in Runs
      /\ UNCHANGED claim
  BY QuietStep, SelectedIsRun DEF Known, WorkInv, WorkShaped, AnswersInv, CallsTrue, RowsHold, Runs
<1>1. call[e].pc # "idle" => K(e) \in Keys /\ K(e) \in Runs
  BY <1>0 DEF CallsShaped, K, Runs
<1>2. ASSUME NEW p \in Aside, Goto(e, p) PROVE call'[e].run \in Runs /\ CallTrue(e)'
  BY <1>0, <1>2, CallGoes, AsideIsTrue
<1>3. ASSUME Reply(e) PROVE call'[e].run \in Runs /\ CallTrue(e)'
  <2>1. "idle" \in Aside
    BY DEF Aside
  <2>2. QED BY <1>0, <1>3, <2>1, CallGoes, AsideIsTrue
<1>4. ASSUME NEW r \in Runs, NEW res, NEW adv, Answer(e, r, res, adv), call[e].pc # "idle",
             Ours(e)' => (res = "effect" => TookEffect(K(e))) /\ (res = "terminal_won" => Overtaken(K(e)))
      PROVE  call'[e].run \in Runs /\ CallTrue(e)'
  BY <1>0, <1>1, <1>4, CallGoes, AnswerStaysTrue
<1>5. ASSUME call[e].pc # "idle", NEW adv, Answer(e, Reconciled(K(e)).run, Reconciled(K(e)).res, adv)
      PROVE  call'[e].run \in Runs /\ CallTrue(e)'
  <2>1. /\ Reconciled(K(e)).run \in Runs
        /\ Reconciled(K(e)).res = "effect" => TookEffect(K(e))
        /\ Reconciled(K(e)).res = "terminal_won" => Overtaken(K(e))
    BY <1>1, <1>5, ReconciledIsTrue
  <2>2. QED BY <1>4, <1>5, <2>1
<1>6. CASE FailUnbound(e) \/ Finish(e) \/ Fail(e) \/ Stumble(e) \/ CancelUnconfirmed(e) \/ SettleCancel(e)
  BY <1>3, <1>6 DEF FailUnbound, Finish, Fail, Stumble, CancelUnconfirmed, SettleCancel
<1>7. CASE Reserve(e)
  <2>1. K(e) \in Keys /\ UsesShaped /\ ReceiptTrue(K(e))
    BY <1>1, <1>7 DEF Reserve, At, Known, WorkInv, WorkShaped, AnswersInv, ReceiptsTrue
  <2>2. PICK k \in Keys : k = K(e) /\ ReceiptTrue(k)
    BY <2>1
  <2>3. \/ Reply(e) \/ Goto(e, "unbound") \/ Goto(e, "takeover") \/ Goto(e, "observe")
        \/ /\ Goto(e, "reserved")
           /\ use' = [use EXCEPT ![k] = [NoUse EXCEPT !.st = "pending", !.source = Selected,
                                                      !.exec = e, !.live = TRUE]]
        \/ /\ Goto(e, "reserved") /\ use[k].st = "failed"
           /\ ActionOf[k] \in {"stop", "dismiss"} \/ AdmitsWork
           /\ use' = [use EXCEPT ![k].st = "pending", ![k].exec = e, ![k].live = TRUE]
    BY <1>7, <2>2 DEF Reserve, Readmit, Own
  <2>4. {"unbound", "takeover", "observe"} \subseteq Aside
    BY DEF Aside
  <2>5. ASSUME Goto(e, "reserved"), use'[k].op = 0 PROVE call'[e].run \in Runs /\ CallTrue(e)'
    <3>1. call'[e].pc = "reserved" /\ call'[e].run = 0 /\ call'[e].key = call[e].key
      BY <2>5, CallGoes
    <3>2. K(e)' = k
      BY <2>2, <3>1 DEF K
    <3>3. QED BY <1>0, <2>5, <3>1, <3>2 DEF CallTrue
  <2>6. CASE /\ Goto(e, "reserved")
             /\ use' = [use EXCEPT ![k] = [NoUse EXCEPT !.st = "pending", !.source = Selected,
                                                        !.exec = e, !.live = TRUE]]
    <3>1. use'[k].op = 0
      BY <2>1, <2>6 DEF UsesShaped, NoUse
    <3>2. QED BY <2>5, <2>6, <3>1
  <2>7. CASE /\ Goto(e, "reserved") /\ use[k].st = "failed"
             /\ ActionOf[k] \in {"stop", "dismiss"} \/ AdmitsWork
             /\ use' = [use EXCEPT ![k].st = "pending", ![k].exec = e, ![k].live = TRUE]
    <3>1. use[k].op = 0
      BY <2>7 DEF Known, FenceInv, Controls, AdmitsWork
    <3>2. use'[k].op = 0
      BY <2>1, <2>7, <3>1 DEF UsesShaped
    <3>3. QED BY <2>5, <2>7, <3>2
  <2>8. QED BY <1>2, <1>3, <2>3, <2>4, <2>6, <2>7
<1>8. CASE Reconcile(e)
  <2>1. PICK k \in Keys : k = K(e)
    BY <1>1, <1>8 DEF Reconcile, At
  <2>2. \/ \E adv : Answer(e, Reconciled(K(e)).run, Reconciled(K(e)).res, adv)
        \/ Reply(e) \/ (Goto(e, "reserved") /\ ~ClaimPending(e, k))
    BY <1>8, <2>1 DEF Reconcile
  <2>3. CASE Goto(e, "reserved") /\ ~ClaimPending(e, k)
    <3>1. call'[e].pc = "reserved" /\ call'[e].run = 0 /\ call'[e].key = call[e].key
      BY <2>3, CallGoes
    <3>2. K(e)' = k /\ UNCHANGED <<use, claim>>
      BY <1>0, <1>8, <2>1, <3>1 DEF K, Reconcile
    <3>3. Ours(e)' /\ use'[k].op # 0 => use'[k].op # claim'.op
      BY <2>3, <3>2 DEF Ours, ClaimPending
    <3>4. QED BY <1>0, <3>1, <3>2, <3>3 DEF CallTrue
  <2>4. call[e].pc # "idle"
    BY <1>8 DEF Reconcile, At
  <2>5. QED BY <1>3, <1>5, <2>2, <2>3, <2>4
<1>9. CASE ReadLive(e)
  <2>1. PICK k \in Keys : k = K(e)
    BY <1>1, <1>9 DEF ReadLive, At
  <2>2. \/ Answer(e, Reconciled(K(e)).run, Reconciled(K(e)).res, Reconciled(K(e)).adv)
        \/ Goto(e, "failing")
        \/ /\ use[k].source = Selected /\ Act(e) \in Offered
           /\ call' = [call EXCEPT ![e].pc = "exec", ![e].run = Selected, ![e].st = run[Selected].st]
    BY <1>9, <2>1 DEF ReadLive
  <2>3. CASE /\ use[k].source = Selected /\ Act(e) \in Offered
             /\ call' = [call EXCEPT ![e].pc = "exec", ![e].run = Selected, ![e].st = run[Selected].st]
    <3>1. call'[e].pc = "exec" /\ call'[e].run = Selected /\ call'[e].key = call[e].key
      BY <1>0, <2>3 DEF CallsShaped
    <3>2. /\ K(e)' = k /\ UNCHANGED <<use, claim, effects, ActionOf>> /\ Act(e)' = Act(e)
          /\ Act(e) = ActionOf[k]
      BY <1>0, <1>9, <2>1, <3>1 DEF K, Act, ReadLive, ledger
    <3>3. Ours(e)' = Ours(e) /\ call[e].pc = "reserved"
      BY <1>9, <2>1, <3>2 DEF Ours, ReadLive, At
    <3>4. Ours(e) /\ Act(e) = "steer" /\ use[k].op # 0 => use[k].op # claim.op
      BY <1>0, <2>1, <3>3 DEF CallTrue
    <3>5. Act(e) = "steer" => run[Selected].st \in {"queued", "running"}
      BY <2>3 DEF Offered
    <3>6. KeyTrue(k)
      BY DEF Known, AnswersInv, KeysTrue
    <3>7. ActionOf[k] = "steer" => ~Overtaken(k)
      BY <2>3, <3>2, <3>5, <3>6 DEF KeyTrue, OverStates
    <3>8. Ours(e) /\ Act(e) = "steer" /\ use[k].op # 0 => effects[k] # 0
      BY <3>2, <3>4, <3>6, <3>7 DEF KeyTrue
    <3>9. QED BY <1>0, <3>1, <3>2, <3>3, <3>4, <3>8 DEF CallTrue
  <2>4. "failing" \in Aside /\ call[e].pc # "idle"
    BY <1>9 DEF Aside, ReadLive, At
  <2>5. QED BY <1>2, <1>5, <2>2, <2>3, <2>4
<1>10. CASE ClaimRefused(e)
  <2>1. PICK k \in Keys : k = K(e)
    BY <1>1, <1>10 DEF ClaimRefused, Controlling, At
  <2>2. call[e].pc = "exec" /\ call[e].run \in Runs /\ k \in Runs /\ UNCHANGED use
    BY <1>0, <1>1, <1>10, <2>1 DEF ClaimRefused, Controlling, At, RowsHold
  <2>3. \/ Answer(e, call[e].run, "already", FALSE) \/ Answer(e, call[e].run, "pending", FALSE)
        \/ Goto(e, "failing")
        \/ Act(e) = "steer" /\ run[k].st # "none" /\ Answer(e, k, "effect", TRUE)
    BY <1>10, <2>1 DEF ClaimRefused
  <2>4. CASE Act(e) = "steer" /\ run[k].st # "none" /\ Answer(e, k, "effect", TRUE)
    <3>1. Ours(e)' = Ours(e)
      BY <2>1, <2>2, <2>4, CallGoes DEF Ours, K
    <3>2. use[k].op # 0
      BY <2>1, <2>4 DEF Known, AnswersInv, KeysTrue, KeyTrue, Act
    <3>3. Ours(e) => effects[k] # 0
      BY <1>0, <2>1, <2>2, <2>4, <3>2 DEF CallTrue
    <3>4. effects[k] \in Nat
      BY DEF Known, OnceInv, Once
    <3>5. Ours(e)' => TookEffect(K(e))
      BY <2>1, <3>1, <3>3, <3>4 DEF TookEffect
    <3>6. QED BY <1>4, <2>2, <2>4, <3>5
  <2>5. "failing" \in Aside
    BY DEF Aside
  <2>6. QED BY <1>2, <1>4, <2>2, <2>3, <2>4, <2>5
<1>11. CASE Unconfirmed(e)
  <2>1. \/ Answer(e, claim.target, "pending", FALSE) \/ Goto(e, "failing")
    BY <1>11 DEF Unconfirmed
  <2>2. "failing" \in Aside /\ claim.target \in Runs /\ call[e].pc # "idle"
    BY <1>0, <1>11 DEF Aside, RowsHold, Unconfirmed, At
  <2>3. QED BY <1>2, <1>4, <2>1, <2>2
<1>12. CASE CancelRefused(e)
  <2>1. Act(e) = "cancel_run"
    BY <1>0, <1>12 DEF CallTrue, CancelRefused, At
  <2>2. ASSUME Goto(e, "cancelled") PROVE call'[e].run \in Runs /\ CallTrue(e)'
    <3>1. call'[e].pc = "cancelled" /\ call'[e].run = 0 /\ call'[e].key = call[e].key
      BY <2>2, CallGoes
    <3>2. Act(e)' = "cancel_run"
      BY <2>1, <3>1 DEF Act, K
    <3>3. QED BY <1>0, <3>1, <3>2 DEF CallTrue
  <2>3. QED BY <1>3, <1>12, <2>2 DEF CancelRefused
<1>13. CASE Die(e)
  <2>1. call'[e].pc = "idle" /\ call'[e].run = 0
    BY <1>0, <1>13 DEF CallsShaped, Die, NoCall
  <2>2. QED BY <1>0, <2>1, AsideIsTrue DEF Aside
<1>14. ASSUME NEW k \in Keys, Begin(e, k) PROVE call'[e].run \in Runs /\ CallTrue(e)'
  <2>1. call'[e].pc = "read" /\ call'[e].run \in {0, Selected}
    BY <1>0, <1>14 DEF CallsShaped, Begin, NoCall
  <2>2. QED BY <1>0, <2>1, AsideIsTrue DEF Aside
<1>15. ASSUME NEW k \in Keys, ReserveCancel(e, k) PROVE call'[e].run \in Runs /\ CallTrue(e)'
  <2>1. \/ UNCHANGED call /\ call[e].pc = "idle"
        \/ /\ call' = [call EXCEPT ![e] = [NoCall EXCEPT !.pc = "cancel", !.key = k]]
           /\ ActionOf[k] = "cancel_run"
    BY <1>15 DEF ReserveCancel, At
  <2>2. CASE UNCHANGED call /\ call[e].pc = "idle"
    <3>1. call'[e] = call[e]
      BY <2>2
    <3>2. call'[e].pc \in Aside /\ call'[e].run \in Runs
      BY <1>0, <2>2, <3>1 DEF Aside, RowsHold
    <3>3. QED BY <3>2, AsideIsTrue
  <2>3. CASE /\ call' = [call EXCEPT ![e] = [NoCall EXCEPT !.pc = "cancel", !.key = k]]
             /\ ActionOf[k] = "cancel_run"
    <3>1. call'[e].pc = "cancel" /\ call'[e].run = 0 /\ call'[e].key = k
      BY <1>0, <2>3 DEF CallsShaped, NoCall
    <3>2. Act(e)' = "cancel_run"
      BY <2>3, <3>1 DEF Act, K
    <3>3. QED BY <1>0, <3>1, <3>2 DEF CallTrue
  <2>4. QED BY <2>1, <2>2, <2>3
<1>16. QED BY <1>6, <1>7, <1>8, <1>9, <1>10, <1>11, <1>12, <1>13, <1>14, <1>15 DEF Quiet

LEMMA QuietAnswers ==
    ASSUME Known, OnceInv', UNCHANGED ActionOf, NEW e \in Executors, Quiet(e) PROVE AnswersInv'
<1>0. RowsHold /\ UNCHANGED <<run, worker, claim, lastOp, proven, effects>> /\ StepOn
  BY QuietStep DEF Known, AnswersInv
<1>1. OutcomesKnown' /\ ClaimTrue' /\ KeysTrue'
  BY <1>0, LedgerStays, ReceiptsOfQuiet DEF ReceiptQuiet
<1>2. ReceiptsTrue' /\ CallsTrue'
  BY QuietReceipts, QuietOthers, CallOfQuiet DEF CallsTrue
<1>3. \A d \in Executors : call'[d].run \in Runs
  BY <1>0, QuietOthers, CallOfQuiet DEF RowsHold
<1>4. current' \in Runs
  BY <1>0 DEF Quiet, Reserve, FailUnbound, Reconcile, ReadLive, ClaimRefused, Unconfirmed, Finish, Fail,
         Stumble, CancelRefused, CancelUnconfirmed, SettleCancel, Die, Begin, ReserveCancel, ledger, RowsHold
<1>5. \A k \in Keys : use'[k].source \in Runs
  BY ReceiptsOfQuiet DEF ReceiptQuiet
<1>6. RowsHold'
  BY <1>0, <1>3, <1>4, <1>5 DEF RowsHold, Runs
<1>7. QED BY <1>1, <1>2, <1>6 DEF AnswersInv

-----------------------------------------------------------------------------
(* The steps that change the ledger.                                         *)

\* A receipt of an action that no operation carries out.
LEMMA NotBound ==
    ASSUME Known, NEW k \in Keys, ActionOf[k] \notin Controls
    PROVE  use[k].op = 0 /\ ~Overtaken(k)
<1>1. use[k].op = 0
  BY DEF Known, OnceInv, Once
<1>2. QED BY <1>1 DEF Known, AnswersInv, OutcomesKnown, Overtaken, Lost

\* A key that the step does nothing for.
LEMMA KeyStays ==
    ASSUME Known, StepOn, NEW k \in Keys, use'[k].op = use[k].op, use'[k].source = use[k].source,
           effects'[k] = effects[k], Overtaken(k)' = Overtaken(k),
           run'[k].st # "none" => run[k].st # "none",
           use[k].op # 0 => /\ use[k].op = claim'.op <=> use[k].op = claim.op
                            /\ use[k].op = claim.op
                                  => claim'.act = claim.act /\ claim'.target = claim.target
                                     /\ claim'.repl = claim.repl
    PROVE  KeyTrue(k)'
<1>0. KeyTrue(k) /\ use[k].source \in Runs /\ k \in Runs /\ "cancelled" \in OverStates
  BY DEF Known, AnswersInv, KeysTrue, RowsHold, Runs, OverStates
<1>1. use'[k].op <= lastOp'
  BY <1>0 DEF StepOn, OpsOn, KeyTrue, Known, WorkInv, WorkShaped, UsesShaped, ClaimShaped
<1>2. Overtaken(k)' =>
        /\ effects'[k] = 0 /\ ActionOf[k] # "resume"
        /\ ActionOf[k] = "steer" => run'[k].st = "cancelled" /\ run'[use[k].source].st \in OverStates
  BY <1>0 DEF KeyTrue, StepOn
<1>3. QED BY <1>0, <1>1, <1>2 DEF KeyTrue, ClaimIsOf, StepOn

LEMMA OutcomesStay ==
    ASSUME Known, StepOn, UNCHANGED proven PROVE OutcomesKnown'
<1>1. /\ lastOp \in Nat /\ lastOp' \in Nat /\ lastOp <= lastOp'
      /\ claim'.op \in {0, claim.op} \/ (claim'.op \in Nat /\ claim'.op > lastOp)
  BY DEF Known, StepOn, OpsOn, WorkInv, WorkShaped, ClaimShaped
<1>2. ASSUME NEW x \in proven
      PROVE  /\ x[1] \in Nat /\ x[1] # 0 /\ x[1] <= lastOp' /\ x[1] # claim'.op
             /\ x[2] \in Effective => ~Lost(x[1])
  <2>1. /\ x[1] \in Nat /\ x[1] # 0 /\ x[1] <= lastOp /\ x[1] # claim.op
        /\ x[2] \in Effective => ~Lost(x[1])
    BY DEF Known, AnswersInv, OutcomesKnown
  <2>2. QED BY <1>1, <2>1
<1>3. QED BY <1>2 DEF OutcomesKnown, Lost

\* The calls of others, when receipts and the claim's operation stay.
LEMMA OthersRest ==
    ASSUME Known, OnceInv', StepOn, NEW e \in Executors, UNCHANGED use, claim'.op = claim.op,
           \A d \in Executors : d # e => call'[d] = call[d],
           CallTrue(e)', call'[e].run \in Runs
    PROVE  CallsTrue' /\ \A d \in Executors : call'[d].run \in Runs
<1>1. ASSUME NEW d \in Executors, d # e PROVE CallTrue(d)'
  <2>1. call'[d] = call[d] /\ K(d)' = K(d) /\ Ours(d)' = Ours(d)
    BY <1>1 DEF K, Ours
  <2>2. call[d].pc = "claimed" => use[K(d)].op # 0 /\ claim'.op = claim.op
    BY DEF Known, AnswersInv, CallsTrue, CallTrue, WorkInv, ClaimStands, AtClaim
  <2>3. QED BY <2>1, <2>2, CallStays
<1>2. QED BY <1>1 DEF CallsTrue, Known, AnswersInv, RowsHold

\* Receipts that the step does not touch.
LEMMA ReceiptsRest ==
    ASSUME Known, OnceInv', StepOn, UNCHANGED use PROVE ReceiptsTrue'
<1>1. ASSUME NEW k \in Keys PROVE ReceiptTrue(k)'
  <2>1. ReceiptTrue(k)
    BY DEF Known, AnswersInv, ReceiptsTrue
  <2>2. QED BY <2>1, ReceiptStays DEF ReceiptTrue
<1>2. QED BY <1>1 DEF ReceiptsTrue

LEMMA RunsAdded ==
    ASSUME RunsShaped, NEW k \in Runs, NEW q \in Runs, q # k,
           run' = [run EXCEPT ![k] = NewRun, ![q].st = "cancelled"]
    PROVE  /\ run'[k] = NewRun /\ run'[q].st = "cancelled" /\ run'[q].at = run[q].at
           /\ \A r \in Runs \ {k, q} : run'[r] = run[r]
<1>1. run' = [r \in Runs |-> IF r = q THEN [run[q] EXCEPT !.st = "cancelled"]
                            ELSE IF r = k THEN NewRun ELSE run[r]]
  BY DEF RunsShaped
<1>2. run'[q] = [run[q] EXCEPT !.st = "cancelled"]
  BY <1>1
<1>3. QED BY <1>1, <1>2 DEF RunsShaped

LEMMA CreatingAnswers ==
    ASSUME Known, OnceInv', UNCHANGED ActionOf, NEW e \in Executors, AssignRun(e) \/ ReplaceQueued(e)
    PROVE  AnswersInv'
<1>0. /\ RunsShaped /\ CallsShaped /\ WorkerShaped /\ DOMAIN effects = Keys /\ RowsHold
      /\ call[e].pc = "exec" /\ ClaimShaped /\ claim.op <= lastOp
  BY DEF Known, WorkInv, WorkShaped, AnswersInv, AssignRun, ReplaceQueued, At, OnceInv
<1>1. PICK k \in Keys : k = K(e)
  BY <1>0 DEF CallsShaped, K
<1>2. k \in Runs /\ \A q \in Keys : q \in Runs
  BY DEF Runs
<1>3. /\ UNCHANGED <<claim, lastOp, proven, use, dismissed>> /\ ActionOf[k] \in Creating
      /\ Act(e) = ActionOf[k]
  BY <1>1 DEF AssignRun, ReplaceQueued, Act, Creating
<1> DEFINE src == call[e].run
<1>4. \/ UNCHANGED <<run, effects>>
      \/ /\ run[k].st = "none" /\ effects' = [effects EXCEPT ![k] = @ + 1]
         /\ \/ run' = [run EXCEPT ![k] = NewRun]
            \/ /\ run[src].st = "queued"
               /\ run' = [run EXCEPT ![k] = NewRun, ![src].st = "cancelled"]
  BY <1>1 DEF AssignRun, ReplaceQueued
<1>4a. \/ Goto(e, "failing") \/ Answer(e, k, "effect", TRUE)
       \/ call' = [call EXCEPT ![e].st = "started"]
  BY <1>1 DEF AssignRun, ReplaceQueued
<1>4b. \/ run[k].st # "none" /\ effects' = effects
       \/ effects' = [effects EXCEPT ![k] = @ + 1]
       \/ Goto(e, "failing")
       \/ call'[e].st = "started" /\ call'[e].pc = call[e].pc
  <2>1. CASE AssignRun(e)
    <3>1. CASE run[k].st # "none"
      BY <1>1, <2>1, <3>1 DEF AssignRun
    <3>2. CASE run[k].st = "none"
      BY <1>1, <2>1, <3>2 DEF AssignRun
    <3>3. QED BY <3>1, <3>2
  <2>2. CASE ReplaceQueued(e)
    <3>1. \/ run[k].st # "none" /\ effects' = effects
          \/ effects' = [effects EXCEPT ![k] = @ + 1]
          \/ Goto(e, "failing") \/ call' = [call EXCEPT ![e].st = "started"]
      BY <1>1, <2>2 DEF ReplaceQueued
    <3>2. CASE call' = [call EXCEPT ![e].st = "started"]
      BY <1>0, <3>2 DEF CallsShaped
    <3>3. QED BY <3>1, <3>2
  <2>3. QED BY <2>1, <2>2
<1>5. current' \in {current, k} /\ worker'.outcome = worker.outcome
  <2>1. \/ UNCHANGED worker \/ worker' = [worker EXCEPT !.st = "starting"]
    BY DEF AssignRun, ReplaceQueued
  <2>2. worker'.outcome = worker.outcome
    BY <1>0, <2>1 DEF WorkerShaped
  <2>3. QED BY <1>1, <2>2 DEF AssignRun, ReplaceQueued
<1> HIDE DEF src
<1>6. /\ \A r \in Runs : \/ run'[r] = run[r]
                         \/ /\ r = k /\ run[k].st = "none"
                            /\ run'[r].st = "queued" /\ effects'[k] = effects[k] + 1
                         \/ r # k /\ run[r].st = "queued" /\ run'[r].st = "cancelled"
      /\ \A r \in Runs : run'[r].at \in Nat /\ run'[r].at <= 1 + Cardinality(Runs)
  <2>1. CASE UNCHANGED run
    BY <1>0, <2>1 DEF RowsHold
  <2>2. CASE /\ run[k].st = "none" /\ effects' = [effects EXCEPT ![k] = @ + 1]
             /\ run' = [run EXCEPT ![k] = NewRun]
    BY <1>0, <1>2, <2>2, NewRunHolds DEF RunsShaped, RowsHold
  <2>3. CASE /\ run[k].st = "none" /\ effects' = [effects EXCEPT ![k] = @ + 1]
             /\ run[src].st = "queued" /\ run' = [run EXCEPT ![k] = NewRun, ![src].st = "cancelled"]
    <3>1. src # k /\ src \in Runs
      BY <1>0, <2>3 DEF RowsHold, src
    <3>2. /\ run'[k] = NewRun /\ run'[src].st = "cancelled" /\ run'[src].at = run[src].at
          /\ \A r \in Runs \ {k, src} : run'[r] = run[r]
      BY <1>0, <1>2, <2>3, <3>1, RunsAdded
    <3>3. effects'[k] = effects[k] + 1
      BY <1>0, <2>3
    <3>4. QED BY <1>0, <2>3, <3>1, <3>2, <3>3, NewRunHolds DEF RowsHold
  <2>4. QED BY <1>4, <2>1, <2>2, <2>3
<1>7. /\ effects[k] \in Nat /\ effects'[k] \in {effects[k], effects[k] + 1}
      /\ \A q \in Keys : q # k => effects'[q] = effects[q]
  BY <1>0, <1>1, <1>4 DEF Known, OnceInv, Once
<1>8. StepOn
  <2>1. OpsOn
    BY <1>0, <1>3 DEF OpsOn, ClaimShaped
  <2>2. \A r \in Runs : run[r].st \in OverStates => run'[r].st = run[r].st
    BY <1>6 DEF OverStates
  <2>3. \A q \in Keys : effects[q] # 0 => effects'[q] # 0
    BY <1>7
  <2>4. QED BY <1>3, <2>1, <2>2, <2>3 DEF StepOn
<1>9. OutcomesKnown' /\ ReceiptsTrue'
  BY <1>3, <1>8, OutcomesStay, ReceiptsRest
<1>10. ClaimTrue'
  <2>1. \A r \in Runs : /\ run[r].st = "paused" => run'[r].st = "paused"
                        /\ run[r].st # "none" => run'[r].st # "none"
                        /\ run[r].st \in {"queued", "cancelled"} => run'[r].st \in {"queued", "cancelled"}
    BY <1>6
  <2>2. QED BY <1>0, <1>2, <1>3, <2>1 DEF ClaimTrue, RowsHold, Known, AnswersInv
<1>11. KeysTrue'
  <2>1. ASSUME NEW q \in Keys, q # k PROVE KeyTrue(q)'
    <3>1. Overtaken(q)' = Overtaken(q)
      BY <1>3 DEF Overtaken, Lost
    <3>2. run'[q].st # "none" => run[q].st # "none"
      BY <1>2, <1>6, <2>1
    <3>3. QED BY <1>3, <1>7, <1>8, <2>1, <3>1, <3>2, KeyStays
  <2>2. KeyTrue(k)'
    <3>1. use[k].op = 0 /\ ~Overtaken(k) /\ KeyTrue(k)
      BY <1>3, NotBound DEF Creating, Controls, Known, AnswersInv, KeysTrue
    <3>2. ~Overtaken(k)'
      BY <1>3, <3>1 DEF Overtaken, Lost
    <3>3. run'[k].st # "none" => effects'[k] # 0
      BY <1>2, <1>3, <1>1, <1>4, <1>6, <1>7, <3>1 DEF KeyTrue
    <3>4. ActionOf[k] # "steer"
      BY <1>3 DEF Creating
    <3>5. QED BY <1>3, <3>1, <3>2, <3>3, <3>4 DEF KeyTrue
  <2>3. QED BY <2>1, <2>2 DEF KeysTrue
<1>12. CallTrue(e)' /\ call'[e].run \in Runs /\ \A d \in Executors : d # e => call'[d] = call[d]
  <2>1. CASE Goto(e, "failing")
    <3>1. "failing" \in Aside
      BY DEF Aside
    <3>2. QED BY <1>0, <1>2, <2>1, <3>1, CallGoes, AsideIsTrue, RequestsMove DEF Runs
  <2>2. CASE call' = [call EXCEPT ![e].st = "started"]
    <3>1. call'[e].pc = "exec" /\ call'[e].key = call[e].key /\ call'[e].run = call[e].run
      BY <1>0, <2>2 DEF CallsShaped
    <3>2. Act(e)' = ActionOf[k]
      BY <1>3, <3>1 DEF Act, K
    <3>3. CallTrue(e)'
      BY <1>3, <3>1, <3>2 DEF CallTrue, Creating
    <3>4. QED BY <1>0, <2>2, <3>1, <3>3 DEF CallsShaped, RowsHold
  <2>3. CASE Answer(e, k, "effect", TRUE)
    <3>1. /\ call'[e].pc = "answer" /\ call'[e].key = call[e].key /\ call'[e].run = k
          /\ call'[e].res = "effect"
      BY <1>0, <2>3 DEF Answer, CallsShaped, NoCall
    <3>2. effects'[k] # 0
      <4>1. KeyTrue(k)
        BY DEF Known, AnswersInv, KeysTrue
      <4>2. CASE run[k].st # "none" /\ effects' = effects
        BY <1>3, <4>1, <4>2 DEF KeyTrue
      <4>3. CASE effects' = [effects EXCEPT ![k] = @ + 1]
        BY <1>0, <1>7, <4>3
      <4>4. ~Goto(e, "failing")
        BY <3>1, CallGoes
      <4>5. QED BY <1>0, <1>4b, <3>1, <4>2, <4>3, <4>4
    <3>3. TookEffect(k)'
      <4>1. effects'[k] \in Nat
        BY <1>7
      <4>2. QED BY <3>2, <4>1 DEF TookEffect
    <3>4. CallTrue(e)'
      BY <1>1, <3>1, <3>3, AnswerIsTrue
    <3>5. \A d \in Executors : d # e => call'[d] = call[d]
      BY <1>0, <1>1, <2>3 DEF Answer, CallsShaped
    <3>6. QED BY <1>2, <3>1, <3>4, <3>5
  <2>4. QED BY <1>4a, <2>1, <2>2, <2>3
<1>13. CallsTrue' /\ \A d \in Executors : call'[d].run \in Runs
  BY <1>3, <1>8, <1>12, OthersRest
<1>14. RowsHold'
  BY <1>0, <1>2, <1>3, <1>5, <1>6, <1>13 DEF RowsHold, Runs
<1>15. QED BY <1>9, <1>10, <1>11, <1>13, <1>14 DEF AnswersInv

\* The ledger of a step that begins and ends no operation: its key, if it has one, is not one
\* that an operation carries out.
Plain(k) == ActionOf[k] \notin Controls \cup Creating

LEMMA LedgerRests ==
    ASSUME Known, StepOn, UNCHANGED proven,
           claim'.op = claim.op, claim'.act = claim.act, claim'.target = claim.target,
           claim'.repl = claim.repl,
           \A q \in Keys : use'[q].op = use[q].op /\ use'[q].source = use[q].source,
           \A q \in Keys : \/ Plain(q) /\ (run'[q].st # "none" => effects'[q] # 0)
                           \/ effects'[q] = effects[q] /\ (run'[q].st # "none" => run[q].st # "none"),
           \A r \in Runs : claim.op # 0 =>
              /\ run[r].st # "none" => run'[r].st # "none"
              /\ run[r].st = "paused" => run'[r].st = "paused"
              /\ run[r].st \in {"queued", "cancelled"} => run'[r].st \in {"queued", "cancelled"}
    PROVE  OutcomesKnown' /\ ClaimTrue' /\ KeysTrue'
<1>0. ClaimTrue /\ claim.target \in Runs /\ \A q \in Keys : q \in Runs
  BY DEF Known, AnswersInv, RowsHold, Runs
<1>1. OutcomesKnown'
  BY OutcomesStay
<1>2. ClaimTrue'
  BY <1>0 DEF ClaimTrue
<1>3. ASSUME NEW q \in Keys PROVE KeyTrue(q)'
  <2>1. Overtaken(q)' = Overtaken(q)
    BY DEF Overtaken, Lost
  <2>2. CASE Plain(q) /\ (run'[q].st # "none" => effects'[q] # 0)
    <3>1. use[q].op = 0 /\ ~Overtaken(q)
      BY <2>2, NotBound DEF Plain
    <3>2. lastOp' \in Nat /\ ActionOf' = ActionOf
      BY DEF StepOn, OpsOn
    <3>3. QED BY <2>1, <2>2, <3>1, <3>2 DEF KeyTrue, Plain, Controls, Creating
  <2>3. CASE effects'[q] = effects[q] /\ (run'[q].st # "none" => run[q].st # "none")
    BY <2>1, <2>3, KeyStays
  <2>4. QED BY <2>2, <2>3
<1>4. QED BY <1>1, <1>2, <1>3 DEF KeysTrue

\* The calls, when none of them goes on.
LEMMA CallsRest ==
    ASSUME Known, OnceInv', StepOn, UNCHANGED call, claim'.op = claim.op,
           \A k \in Keys : /\ use'[k].op = use[k].op
                           /\ use'[k].st = "pending" => use[k].st = "pending" /\ use'[k].exec = use[k].exec
    PROVE  CallsTrue'
<1>1. ASSUME NEW d \in Executors PROVE CallTrue(d)'
  <2>1. call[d].pc # "idle" /\ Ours(d)' => Ours(d) /\ use'[K(d)].op = use[K(d)].op
    BY DEF K, Ours, Known, WorkInv, WorkShaped, CallsShaped
  <2>2. call[d].pc = "claimed" => use[K(d)].op # 0 /\ claim'.op = claim.op
    BY DEF Known, AnswersInv, CallsTrue, CallTrue, WorkInv, ClaimStands, AtClaim
  <2>3. QED BY <2>1, <2>2, CallStays
<1>2. QED BY <1>1 DEF CallsTrue

LEMMA DismissAnswers ==
    ASSUME Known, OnceInv', UNCHANGED ActionOf, NEW e \in Executors, Dismiss(e) PROVE AnswersInv'
<1>0. /\ CallsShaped /\ ClaimShaped /\ DOMAIN effects = Keys /\ RowsHold /\ claim.op <= lastOp
      /\ call[e].pc = "exec"
  BY DEF Known, WorkInv, WorkShaped, AnswersInv, OnceInv, Dismiss, At
<1>1. PICK k \in Keys : k = K(e)
  BY <1>0 DEF CallsShaped, K
<1>2. /\ UNCHANGED <<run, current, worker, claim, lastOp, proven, use>> /\ dismissed' = TRUE
      /\ ActionOf[k] = "dismiss" /\ effects' = [effects EXCEPT ![k] = 1]
  BY <1>1 DEF Dismiss, Act
<1>3. Plain(k) /\ \A q \in Keys : q # k => effects'[q] = effects[q]
  BY <1>0, <1>2 DEF Plain, Controls, Creating
<1>4. effects'[k] = 1
  BY <1>0, <1>2
<1>5. StepOn
  <2>1. OpsOn
    BY <1>0, <1>2 DEF OpsOn, ClaimShaped
  <2>2. \A q \in Keys : effects[q] # 0 => effects'[q] # 0
    BY <1>3, <1>4
  <2>3. QED BY <1>2, <2>1, <2>2 DEF StepOn
<1>6. OutcomesKnown' /\ ClaimTrue' /\ KeysTrue'
  BY <1>2, <1>3, <1>5, LedgerRests
<1>7. ReceiptsTrue'
  BY <1>2, <1>5, ReceiptsRest
<1>8. Answer(e, call[e].run, "effect", FALSE)
  BY DEF Dismiss
<1>9. /\ call'[e].pc = "answer" /\ call'[e].key = call[e].key /\ call'[e].run = call[e].run
      /\ call'[e].res = "effect" /\ \A d \in Executors : d # e => call'[d] = call[d]
  BY <1>0, <1>8 DEF Answer, CallsShaped, NoCall
<1>10. TookEffect(k)'
  BY <1>4 DEF TookEffect
<1>11. CallTrue(e)'
  BY <1>1, <1>9, <1>10, AnswerIsTrue
<1>12. CallsTrue' /\ \A d \in Executors : call'[d].run \in Runs
  BY <1>0, <1>2, <1>5, <1>9, <1>11, OthersRest DEF RowsHold
<1>13. RowsHold'
  BY <1>0, <1>2, <1>12 DEF RowsHold, Runs
<1>14. QED BY <1>6, <1>7, <1>12, <1>13 DEF AnswersInv

LEMMA RunMovesAnswers ==
    ASSUME Known, OnceInv', UNCHANGED ActionOf, NEW r \in Runs, RunMoves(r) PROVE AnswersInv'
<1>0. RunsShaped /\ WorkerShaped /\ ClaimShaped /\ RowsHold /\ claim.op <= lastOp
  BY DEF Known, WorkInv, WorkShaped, AnswersInv, OnceInv
<1>1. UNCHANGED <<current, dismissed, claim, lastOp, proven, use, call, effects>>
  BY DEF RunMoves
<1>2. /\ UNCHANGED worker \/ worker' = [worker EXCEPT !.st = "ready"]
      /\ \E s : run' = [run EXCEPT ![r].st = s] /\ s # "none"
      /\ run[r].st = "running" \/ (run[r].st = "queued" /\ claim.op = 0)
  BY DEF RunMoves
<1>3. /\ \A q \in Runs : q # r => run'[q] = run[q]
      /\ run'[r].at = run[r].at /\ run'[r].st # "none"
  BY <1>0, <1>2 DEF RunsShaped
<1>4. StepOn
  <2>1. OpsOn
    BY <1>0, <1>1 DEF OpsOn, ClaimShaped
  <2>2. \A q \in Runs : run[q].st \in OverStates => run'[q].st = run[q].st
    BY <1>2, <1>3 DEF OverStates
  <2>3. QED BY <1>1, <2>1, <2>2 DEF StepOn
<1>5. OutcomesKnown' /\ ClaimTrue' /\ KeysTrue'
  <2>1. \A q \in Keys : run'[q].st # "none" => run[q].st # "none"
    BY <1>2, <1>3 DEF Runs
  <2>2. \A q \in Runs : claim.op # 0 =>
          /\ run[q].st # "none" => run'[q].st # "none"
          /\ run[q].st = "paused" => run'[q].st = "paused"
          /\ run[q].st \in {"queued", "cancelled"} => run'[q].st \in {"queued", "cancelled"}
    BY <1>2, <1>3
  <2>3. QED BY <1>1, <1>4, <2>1, <2>2, LedgerRests
<1>6. ReceiptsTrue' /\ CallsTrue'
  BY <1>1, <1>4, ReceiptsRest, CallsRest
<1>7. RowsHold'
  <2>1. worker'.outcome = worker.outcome
    BY <1>0, <1>2 DEF WorkerShaped
  <2>2. \A q \in Runs : run'[q].at = run[q].at
    BY <1>3
  <2>3. QED BY <1>0, <1>1, <2>1, <2>2 DEF RowsHold, Runs
<1>8. QED BY <1>5, <1>6, <1>7 DEF AnswersInv

LEMMA ExpiringAnswers ==
    ASSUME Known, OnceInv', UNCHANGED ActionOf, ExpireClaim \/ \E k \in Keys : ExpireUse(k)
    PROVE  AnswersInv'
<1>0. ClaimShaped /\ UsesShaped /\ RowsHold /\ claim.op <= lastOp
  BY DEF Known, WorkInv, WorkShaped, AnswersInv, OnceInv
<1>1. UNCHANGED <<run, current, dismissed, worker, lastOp, proven, effects, call>>
  BY DEF ExpireClaim, ExpireUse, ledger
<1>2. /\ claim'.op = claim.op /\ claim'.act = claim.act /\ claim'.target = claim.target
      /\ claim'.repl = claim.repl
  BY <1>0 DEF ExpireClaim, ExpireUse, ledger, ClaimShaped
<1>3. ASSUME NEW q \in Keys
      PROVE  /\ use'[q].op = use[q].op /\ use'[q].source = use[q].source /\ use'[q].st = use[q].st
             /\ use'[q].exec = use[q].exec /\ use'[q].resp = use[q].resp
  <2>1. UNCHANGED use \/ \E k \in Keys : use' = [use EXCEPT ![k].live = FALSE]
    BY DEF ExpireClaim, ExpireUse
  <2>2. QED BY <1>0, <2>1 DEF UsesShaped
<1>4. StepOn
  <2>1. OpsOn
    BY <1>0, <1>1, <1>2 DEF OpsOn, ClaimShaped
  <2>2. QED BY <1>1, <1>3, <2>1 DEF StepOn
<1>5. OutcomesKnown' /\ ClaimTrue' /\ KeysTrue'
  BY <1>1, <1>2, <1>3, <1>4, LedgerRests
<1>6. ReceiptsTrue'
  <2>1. ASSUME NEW q \in Keys PROVE ReceiptTrue(q)'
    <3>1. ReceiptTrue(q)
      BY DEF Known, AnswersInv, ReceiptsTrue
    <3>2. QED BY <1>3, <1>4, <3>1, ReceiptStays DEF ReceiptTrue
  <2>2. QED BY <2>1 DEF ReceiptsTrue
<1>7. CallsTrue'
  BY <1>1, <1>2, <1>3, <1>4, CallsRest
<1>8. RowsHold'
  BY <1>0, <1>1, <1>2, <1>3 DEF RowsHold, Runs
<1>9. QED BY <1>5, <1>6, <1>7, <1>8 DEF AnswersInv

LEMMA RetryAnswers ==
    ASSUME Known, OnceInv', UNCHANGED ActionOf, NEW e \in Executors, NEW k \in Keys, RetryRun(e, k)
    PROVE  AnswersInv'
<1>0. /\ RunsShaped /\ UsesShaped /\ WorkerShaped /\ ClaimShaped /\ RowsHold /\ DOMAIN effects = Keys
      /\ claim.op <= lastOp
  BY DEF Known, WorkInv, WorkShaped, AnswersInv, OnceInv
<1>1. /\ UNCHANGED <<current, dismissed, claim, lastOp, proven, call>>
      /\ run' = [run EXCEPT ![k] = NewRun] /\ effects' = [effects EXCEPT ![k] = @ + 1]
      /\ use' = [use EXCEPT ![k].st = "completed", ![k].resp = "effect"]
      /\ ActionOf[k] = "retry_run" /\ use[k].st = "none"
  BY DEF RetryRun
<1>2. worker'.outcome = worker.outcome
  <2>1. UNCHANGED worker \/ worker' = [worker EXCEPT !.st = "starting"]
    BY DEF RetryRun
  <2>2. QED BY <1>0, <2>1 DEF WorkerShaped
<1>3. effects[k] = 0 /\ run[k].st = "none"
  <2>1. Once(k) /\ KeyTrue(k)
    BY DEF Known, OnceInv, AnswersInv, KeysTrue
  <2>2. QED BY <1>1, <2>1 DEF Once, KeyTrue
<1>4. Plain(k) /\ k \in Runs
  BY <1>1 DEF Plain, Controls, Creating, Runs
<1>5. /\ run'[k].st = "queued" /\ run'[k].at \in Nat /\ run'[k].at <= 1 + Cardinality(Runs)
      /\ \A r \in Runs : r # k => run'[r] = run[r]
  BY <1>0, <1>1, <1>4, NewRunHolds DEF RunsShaped
<1>6. effects'[k] = 1 /\ \A q \in Keys : q # k => effects'[q] = effects[q]
  BY <1>0, <1>1, <1>3
<1>7. /\ use'[k].st = "completed" /\ use'[k].op = use[k].op /\ use'[k].source = use[k].source
      /\ \A q \in Keys : q # k => use'[q] = use[q]
  BY <1>0, <1>1 DEF UsesShaped
<1>8. StepOn
  <2>1. OpsOn
    BY <1>0, <1>1 DEF OpsOn, ClaimShaped
  <2>2. \A r \in Runs : run[r].st \in OverStates => run'[r].st = run[r].st
    BY <1>3, <1>5 DEF OverStates
  <2>3. \A q \in Keys : effects[q] # 0 => effects'[q] # 0
    BY <1>6
  <2>4. \A q \in Keys : use'[q].op = use[q].op /\ use'[q].source = use[q].source
    BY <1>7
  <2>5. QED BY <1>1, <2>1, <2>2, <2>3, <2>4 DEF StepOn
<1>9. OutcomesKnown' /\ ClaimTrue' /\ KeysTrue'
  <2>1. \A q \in Keys : \/ Plain(q) /\ (run'[q].st # "none" => effects'[q] # 0)
                        \/ effects'[q] = effects[q] /\ (run'[q].st # "none" => run[q].st # "none")
    BY <1>4, <1>5, <1>6 DEF Runs
  <2>2. \A q \in Runs : claim.op # 0 =>
          /\ run[q].st # "none" => run'[q].st # "none"
          /\ run[q].st = "paused" => run'[q].st = "paused"
          /\ run[q].st \in {"queued", "cancelled"} => run'[q].st \in {"queued", "cancelled"}
    BY <1>3, <1>5
  <2>3. \A q \in Keys : use'[q].op = use[q].op /\ use'[q].source = use[q].source
    BY <1>7
  <2>4. QED BY <1>1, <1>8, <2>1, <2>2, <2>3, LedgerRests
<1>10. ReceiptsTrue'
  <2>1. ASSUME NEW q \in Keys, q # k PROVE ReceiptTrue(q)'
    <3>1. ReceiptTrue(q) /\ use'[q] = use[q]
      BY <1>7, <2>1 DEF Known, AnswersInv, ReceiptsTrue
    <3>2. QED BY <1>8, <3>1, ReceiptStays DEF ReceiptTrue
  <2>2. use'[k].resp = "effect"
    BY <1>0, <1>1 DEF UsesShaped
  <2>3. TookEffect(k)'
    BY <1>6 DEF TookEffect
  <2>4. ReceiptTrue(k)'
    BY <1>7, <2>2, <2>3 DEF ReceiptTrue
  <2>5. QED BY <2>1, <2>4 DEF ReceiptsTrue
<1>11. CallsTrue'
  <2>1. \A q \in Keys :
           /\ use'[q].op = use[q].op
           /\ use'[q].st = "pending" => use[q].st = "pending" /\ use'[q].exec = use[q].exec
    BY <1>7
  <2>2. QED BY <1>1, <1>8, <2>1, CallsRest
<1>12. RowsHold'
  BY <1>0, <1>1, <1>2, <1>5, <1>7 DEF RowsHold, Runs
<1>13. QED BY <1>9, <1>10, <1>11, <1>12 DEF AnswersInv

\* The calls of others, when a receipt of the process itself changes.
LEMMA OthersStay ==
    ASSUME Known, OnceInv', StepOn, NEW e \in Executors, NEW k \in Keys,
           \A q \in Keys : q # k => use'[q] = use[q],
           use'[k] = use[k] \/ use'[k].exec = e,
           \A d \in Executors : d # e => call'[d] = call[d],
           \A d \in Executors : d # e => call[d].pc # "claimed" \/ claim'.op = claim.op,
           CallTrue(e)', call'[e].run \in Runs
    PROVE  CallsTrue' /\ \A d \in Executors : call'[d].run \in Runs
<1>1. ASSUME NEW d \in Executors, d # e PROVE CallTrue(d)'
  <2>1. call'[d] = call[d] /\ (call[d].pc # "claimed" \/ claim'.op = claim.op)
    BY <1>1
  <2>2. call[d].pc # "idle" => K(d) \in Keys
    BY DEF Known, WorkInv, WorkShaped, CallsShaped, K
  <2>3. ASSUME call[d].pc # "idle", Ours(d)' PROVE Ours(d) /\ use'[K(d)].op = use[K(d)].op
    <3>1. K(d)' = K(d)
      BY <2>1 DEF K
    <3>2. use'[K(d)].exec = d
      BY <2>3, <3>1 DEF Ours
    <3>3. use'[K(d)] = use[K(d)]
      BY <1>1, <2>2, <2>3, <3>2
    <3>4. QED BY <2>3, <3>1, <3>3 DEF Ours
  <2>4. call[d].pc = "claimed" => use[K(d)].op # 0
    BY DEF Known, AnswersInv, CallsTrue, CallTrue, WorkInv, ClaimStands, AtClaim
  <2>5. QED BY <2>1, <2>3, <2>4, CallStays
<1>2. QED BY <1>1 DEF CallsTrue, Known, AnswersInv, RowsHold

LEMMA ResumeAnswers ==
    ASSUME Known, OnceInv', UNCHANGED ActionOf, NEW e \in Executors, ResumeNeedsInput(e)
    PROVE  AnswersInv'
<1>0. /\ CallsShaped /\ UsesShaped /\ RunsShaped /\ WorkerShaped /\ ClaimShaped
      /\ DOMAIN effects = Keys /\ RowsHold /\ claim.op <= lastOp /\ call[e].pc = "exec"
  BY DEF Known, WorkInv, WorkShaped, AnswersInv, OnceInv, ResumeNeedsInput, At
<1>1. PICK k \in Keys : k = K(e)
  BY <1>0 DEF CallsShaped, K
<1>2. PICK r \in Runs : r = call[e].run
  BY <1>0 DEF RowsHold
<1>3. PICK op : op = IF use[k].op # 0 THEN use[k].op ELSE lastOp + 1
  OBVIOUS
<1>4. UNCHANGED <<current, dismissed, claim>> /\ ActionOf[k] = "resume"
  BY <1>1 DEF ResumeNeedsInput, Act
<1>5. CASE Goto(e, "failing") /\ UNCHANGED <<run, worker, use, lastOp, proven, effects>>
  <2>1. StepOn
    BY <1>0, <1>4, <1>5 DEF StepOn, OpsOn, ClaimShaped
  <2>2. OutcomesKnown' /\ ClaimTrue' /\ KeysTrue'
    BY <1>4, <1>5, <2>1, LedgerRests
  <2>3. ReceiptsTrue'
    BY <1>5, <2>1, ReceiptsRest
  <2>4. CallTrue(e)' /\ call'[e].run \in Runs /\ \A d \in Executors : d # e => call'[d] = call[d]
    <3>1. "failing" \in Aside /\ 0 \in Runs
      BY DEF Aside, Runs
    <3>2. QED BY <1>0, <1>5, <3>1, CallGoes, AsideIsTrue, RequestsMove
  <2>5. CallsTrue' /\ \A d \in Executors : call'[d].run \in Runs
    BY <1>4, <1>5, <2>1, <2>4, OthersRest
  <2>6. RowsHold'
    BY <1>0, <1>4, <1>5, <2>5 DEF RowsHold, Runs
  <2>7. QED BY <2>2, <2>3, <2>5, <2>6 DEF AnswersInv
<1>6. CASE /\ use[k].st = "pending" /\ use[k].exec = e /\ use[k].source = r
           /\ run[r].st = "needs_input" /\ run' = [run EXCEPT ![r].st = "queued"]
           /\ worker' = [worker EXCEPT !.st = "starting"]
           /\ use' = [use EXCEPT ![k].op = op] /\ lastOp' = IF op > lastOp THEN op ELSE lastOp
           /\ proven' = proven \cup {<<op, "readmitted">>}
           /\ effects' = [effects EXCEPT ![k] = @ + 1]
           /\ Answer(e, r, "effect", FALSE)
  <2>1. KeyTrue(k) /\ OutcomesKnown /\ ClaimTrue
    BY DEF Known, AnswersInv, KeysTrue
  <2>2. use[k].op \in Nat /\ lastOp \in Nat /\ claim.op \in Nat
    BY <1>0 DEF UsesShaped, ClaimShaped
  <2>3. op \in Nat /\ op # 0 /\ lastOp' \in Nat /\ op <= lastOp' /\ lastOp <= lastOp'
    BY <1>3, <1>6, <2>2
  <2>4. op # claim.op /\ ~Lost(op)
    <3>1. CASE use[k].op = 0
      <4>1. op > lastOp
        BY <1>3, <2>2, <3>1
      <4>2. op # claim.op
        BY <1>0, <2>2, <2>3, <4>1
      <4>3. \A x \in proven : x[1] # op
        <5>1. \A x \in proven : x[1] \in Nat /\ x[1] <= lastOp
          BY <2>1 DEF OutcomesKnown
        <5>2. QED BY <2>2, <2>3, <4>1, <5>1
      <4>4. QED BY <4>2, <4>3 DEF Lost
    <3>2. CASE use[k].op # 0
      <4>1. op = use[k].op /\ ~Overtaken(k)
        BY <1>3, <1>4, <2>1, <3>2 DEF KeyTrue
      <4>2. op # claim.op
        BY <1>4, <1>6, <2>1, <3>2, <4>1 DEF KeyTrue, ClaimIsOf, ClaimTrue
      <4>3. QED BY <4>1, <4>2 DEF Overtaken
    <3>3. QED BY <3>1, <3>2
  <2>5. /\ use'[k].op = op /\ use'[k].st = "pending" /\ use'[k].source = use[k].source
        /\ use'[k].exec = e /\ use'[k].resp = use[k].resp /\ \A q \in Keys : q # k => use'[q] = use[q]
    BY <1>0, <1>6 DEF UsesShaped
  <2>6. /\ run'[r].st = "queued" /\ run'[r].at = run[r].at /\ \A q \in Runs : q # r => run'[q] = run[q]
        /\ worker'.outcome = worker.outcome
    BY <1>0, <1>6 DEF RunsShaped, WorkerShaped
  <2>7. /\ effects'[k] = effects[k] + 1 /\ effects[k] \in Nat
        /\ \A q \in Keys : q # k => effects'[q] = effects[q]
    BY <1>0, <1>6 DEF Known, OnceInv, Once
  <2>8. \A x : Lost(x)' = Lost(x)
    BY <1>6 DEF Lost
  <2>9. StepOn
    <3>1. OpsOn
      BY <1>0, <1>4, <2>2, <2>3 DEF OpsOn
    <3>2. \A q \in Runs : run[q].st \in OverStates => run'[q].st = run[q].st
      BY <1>6, <2>6 DEF OverStates
    <3>3. \A q \in Keys : use[q].op # 0 => use'[q].op = use[q].op /\ use'[q].source = use[q].source
      BY <1>3, <2>5
    <3>4. \A q \in Keys : effects[q] # 0 => effects'[q] # 0
      BY <2>7
    <3>5. QED BY <1>4, <1>6, <3>1, <3>2, <3>3, <3>4 DEF StepOn
  <2>10. OutcomesKnown'
    <3>1. ASSUME NEW x \in proven'
          PROVE  /\ x[1] \in Nat /\ x[1] # 0 /\ x[1] <= lastOp' /\ x[1] # claim'.op
                 /\ x[2] \in Effective => ~Lost(x[1])'
      <4>1. CASE x \in proven
        <5>1. /\ x[1] \in Nat /\ x[1] # 0 /\ x[1] <= lastOp /\ x[1] # claim.op
              /\ x[2] \in Effective => ~Lost(x[1])
          BY <2>1, <4>1 DEF OutcomesKnown
        <5>2. x[1] <= lastOp'
          BY <2>2, <2>3, <5>1
        <5>3. QED BY <1>4, <2>8, <5>1, <5>2
      <4>2. CASE x = <<op, "readmitted">>
        BY <1>4, <2>3, <2>4, <2>8, <4>2
      <4>3. QED BY <1>6, <3>1, <4>1, <4>2
    <3>2. QED BY <3>1 DEF OutcomesKnown, Lost
  <2>11. ClaimTrue'
    <3>1. claim.target \in Runs /\ \A q \in Keys : q \in Runs
      BY <1>0 DEF RowsHold, Runs
    <3>2. \A q \in Runs : /\ run[q].st # "none" => run'[q].st # "none"
                          /\ run[q].st = "paused" => run'[q].st = "paused"
                          /\ run[q].st \in {"queued", "cancelled"} => run'[q].st \in {"queued", "cancelled"}
      BY <1>6, <2>6
    <3>3. QED BY <1>4, <2>1, <3>1, <3>2 DEF ClaimTrue
  <2>12. KeysTrue'
    <3>1. ASSUME NEW q \in Keys, q # k PROVE KeyTrue(q)'
      <4>1. Overtaken(q)' = Overtaken(q)
        BY <2>5, <2>8, <3>1 DEF Overtaken
      <4>2. run'[q].st # "none" => run[q].st # "none"
        BY <1>6, <2>6 DEF Runs
      <4>3. QED BY <1>4, <2>5, <2>7, <2>9, <3>1, <4>1, <4>2, KeyStays
    <3>2. KeyTrue(k)'
      <4>1. ~Overtaken(k)'
        BY <2>4, <2>5, <2>8 DEF Overtaken
      <4>2. effects'[k] # 0
        BY <2>7
      <4>3. QED BY <1>4, <2>3, <2>4, <2>5, <4>1, <4>2 DEF KeyTrue
    <3>3. QED BY <3>1, <3>2 DEF KeysTrue
  <2>13. ReceiptsTrue'
    <3>1. ASSUME NEW q \in Keys PROVE ReceiptTrue(q)'
      <4>1. ReceiptTrue(q)
        BY DEF Known, AnswersInv, ReceiptsTrue
      <4>2. use'[q].resp = use[q].resp
        BY <2>5
      <4>3. QED BY <2>9, <4>2, ReceiptStays
    <3>2. QED BY <3>1 DEF ReceiptsTrue
  <2>14. /\ call'[e].pc = "answer" /\ call'[e].key = call[e].key /\ call'[e].run = r
         /\ \A d \in Executors : d # e => call'[d] = call[d]
    BY <1>0, <1>6 DEF Answer, CallsShaped, NoCall
  <2>15. call'[e].res = "effect"
    BY <1>0, <1>6 DEF Answer, CallsShaped, NoCall
  <2>16. TookEffect(k)'
    BY <2>7 DEF TookEffect
  <2>17. CallTrue(e)'
    BY <1>1, <2>14, <2>15, <2>16, AnswerIsTrue
  <2>18. CallsTrue' /\ \A d \in Executors : call'[d].run \in Runs
    BY <1>4, <2>5, <2>9, <2>14, <2>17, OthersStay
  <2>19. RowsHold'
    <3>1. \A q \in Runs : run'[q].at = run[q].at
      BY <2>6
    <3>2. \A q \in Keys : use'[q].source = use[q].source
      BY <2>5
    <3>3. QED BY <1>0, <1>4, <2>6, <2>18, <3>1, <3>2 DEF RowsHold, Runs
  <2>20. QED BY <2>10, <2>11, <2>12, <2>13, <2>18, <2>19 DEF AnswersInv
<1>7. CASE /\ Answer(e, r, "effect", FALSE) /\ run[r].st = "queued" /\ Proves(k, "readmitted")
           /\ UNCHANGED <<run, worker, use, lastOp, proven, effects>>
  <2>1. StepOn
    BY <1>0, <1>4, <1>7 DEF StepOn, OpsOn, ClaimShaped
  <2>2. OutcomesKnown' /\ ClaimTrue' /\ KeysTrue'
    BY <1>4, <1>7, <2>1, LedgerRests
  <2>3. ReceiptsTrue'
    BY <1>7, <2>1, ReceiptsRest
  <2>4. effects[k] # 0
    <3>1. /\ use[k].op # 0 /\ <<use[k].op, "readmitted">> \in proven /\ KeyTrue(k) /\ OutcomesKnown
          /\ effects[k] \in Nat
      BY <1>7 DEF Proves, Known, AnswersInv, KeysTrue, OnceInv, Once
    <3>2. use[k].op # claim.op /\ ~Overtaken(k)
      <4>1. PICK x \in proven : x = <<use[k].op, "readmitted">>
        BY <3>1
      <4>2. x[1] = use[k].op /\ x[2] \in Effective
        BY <4>1 DEF Effective
      <4>3. QED BY <3>1, <4>1, <4>2 DEF OutcomesKnown, Overtaken
    <3>3. QED BY <3>1, <3>2 DEF KeyTrue
  <2>5. TookEffect(k)'
    <3>1. effects[k] \in Nat /\ effects'[k] = effects[k]
      BY <1>7 DEF Known, OnceInv, Once
    <3>2. QED BY <2>4, <3>1 DEF TookEffect
  <2>6. /\ call'[e].pc = "answer" /\ call'[e].key = call[e].key /\ call'[e].run = r
        /\ call'[e].res = "effect" /\ \A d \in Executors : d # e => call'[d] = call[d]
    BY <1>0, <1>7 DEF Answer, CallsShaped, NoCall
  <2>7. CallTrue(e)'
    BY <1>1, <2>5, <2>6, AnswerIsTrue
  <2>8. CallsTrue' /\ \A d \in Executors : call'[d].run \in Runs
    BY <1>4, <1>7, <2>1, <2>6, <2>7, OthersRest
  <2>9. RowsHold'
    BY <1>0, <1>4, <1>7, <2>8 DEF RowsHold, Runs
  <2>10. QED BY <2>2, <2>3, <2>8, <2>9 DEF AnswersInv
<1>8. QED BY <1>1, <1>2, <1>3, <1>5, <1>6, <1>7, Zenon DEF ResumeNeedsInput

(* Taking a claim, on run r for action a; a steer replaces by the run of its own key.           *)
LEMMA ClaimAnswers ==
    ASSUME Known, NEW a, NEW r \in Runs, NEW repl, CanClaim(a, r, repl), TakeClaim(a, r, repl),
           a = "steer" => repl \in Keys /\ (run[repl].st = "none" \/ claim.repl = repl),
           a # "steer" => repl = 0,
           UNCHANGED <<ActionOf, proven, dismissed, effects>>,
           \A q \in Keys : /\ use'[q].source = use[q].source
                           /\ use'[q].op = use[q].op \/ (use[q].op \in {0, ClaimOp} /\ use'[q].op = ClaimOp)
    PROVE  /\ StepOn /\ OutcomesKnown' /\ ClaimTrue'
           /\ claim'.op = ClaimOp /\ ClaimOp # 0 /\ claim'.act = a /\ claim'.target = r
           /\ claim'.repl = repl /\ ClaimOp <= lastOp'
           /\ \A q \in Keys : use'[q].op = use[q].op /\ (a = "steer" => q # repl) => KeyTrue(q)'
           /\ \A q \in Runs : run'[q].at \in Nat /\ run'[q].at <= 1 + Cardinality(Runs)
           /\ worker'.outcome \in {"", worker.outcome}
<1>0. /\ RunsShaped /\ WorkerShaped /\ ClaimShaped /\ WorkShaped /\ RowsHold /\ ClaimTrue
      /\ UsesShaped /\ OnceInv
  BY DEF Known, WorkInv, WorkShaped, AnswersInv
<1>1. /\ OpsOn /\ claim'.op = ClaimOp /\ (ClaimOp = claim.op \/ ClaimOp > lastOp)
      /\ ClaimOp # 0 /\ ClaimOp \in Nat /\ ClaimOp <= lastOp'
  BY <1>0, ClaimIsNew
<1>2. claim'.act = a /\ claim'.target = r /\ claim'.repl = repl
  BY DEF TakeClaim
<1>3. run[r].st # "none" /\ (a = "resume" => run[r].st = "paused")
  <2>1. CASE claim.op = 0
    BY <2>1 DEF CanClaim, ClaimableFrom, Controllable
  <2>2. CASE claim.op # 0
    BY <1>0, <2>2 DEF CanClaim, ClaimTrue
  <2>3. QED BY <2>1, <2>2
<1>4. a = "steer" =>
        /\ repl \in Runs /\ repl # r /\ repl # 0
        /\ run[repl].st = "none" \/ (claim.op # 0 /\ run[repl].st \in {"queued", "cancelled"})
  <2>1. CASE claim.op = 0
    BY <1>0, <1>3, <2>1, KeysAssumption DEF ClaimTrue, Runs
  <2>2. CASE claim.op # 0
    BY <1>0, <1>3, <2>2, KeysAssumption DEF CanClaim, ClaimTrue, Runs
  <2>3. QED BY <2>1, <2>2
<1>5. /\ \A q \in Runs : \/ run'[q] = run[q]
                         \/ q = repl /\ a = "steer" /\ run[q].st = "none" /\ run'[q] = NewRun
      /\ a = "steer" /\ run[repl].st = "none" => run'[repl] = NewRun
  <2>1. CASE a = "steer" /\ run[repl].st = "none"
    <3>1. run' = [run EXCEPT ![repl] = NewRun]
      BY <1>4, <2>1 DEF TakeClaim
    <3>2. QED BY <1>0, <1>4, <2>1, <3>1 DEF RunsShaped
  <2>2. CASE ~(a = "steer" /\ run[repl].st = "none")
    <3>1. run' = run
      BY <2>2 DEF TakeClaim
    <3>2. QED BY <2>2, <3>1
  <2>3. QED BY <2>1, <2>2
<1>6. StepOn
  <2>1. \A q \in Runs : run[q].st \in OverStates => run'[q].st = run[q].st
    BY <1>5 DEF OverStates
  <2>2. \A q \in Keys : use[q].op # 0 => use'[q].op = use[q].op /\ use'[q].source = use[q].source
    <3>1. ASSUME NEW q \in Keys, use[q].op # 0 PROVE use'[q].op = use[q].op
      BY <3>1
    <3>2. QED BY <3>1
  <2>3. QED BY <1>1, <2>1, <2>2 DEF StepOn
<1>7. OutcomesKnown'
  BY <1>6, OutcomesStay
<1>8. ClaimTrue'
  <2>1. run'[r] = run[r]
    BY <1>3, <1>5
  <2>2. a = "steer" => run'[repl].st \in {"queued", "cancelled"}
    BY <1>4, <1>5, NewRunHolds
  <2>3. QED BY <1>1, <1>2, <1>3, <1>4, <2>1, <2>2 DEF ClaimTrue
<1>9. ASSUME NEW q \in Keys, use'[q].op = use[q].op, a = "steer" => q # repl PROVE KeyTrue(q)'
  <2>1. run'[q] = run[q]
    BY <1>5, <1>9 DEF Runs
  <2>2. Overtaken(q)' = Overtaken(q)
    BY <1>9 DEF Overtaken, Lost
  <2>3. use[q].op \in Nat /\ lastOp \in Nat /\ use[q].op <= lastOp
    BY <1>0 DEF UsesShaped, ClaimShaped, Known, AnswersInv, KeysTrue, KeyTrue
  <2>4. use[q].op # 0 => (use[q].op = claim'.op <=> use[q].op = claim.op)
    BY <1>1, <2>3 DEF ClaimOp
  <2>5. claim.op # 0 => claim'.act = claim.act /\ claim'.target = claim.target /\ claim'.repl = claim.repl
    BY <1>2 DEF CanClaim
  <2>6. QED BY <1>6, <1>9, <2>1, <2>2, <2>4, <2>5, KeyStays
<1>10. \A q \in Runs : run'[q].at \in Nat /\ run'[q].at <= 1 + Cardinality(Runs)
  BY <1>0, <1>5, NewRunHolds DEF RowsHold
<1>11. worker'.outcome \in {"", worker.outcome}
  BY <1>0 DEF TakeClaim, WorkerShaped
<1>12. QED BY <1>1, <1>2, <1>6, <1>7, <1>8, <1>9, <1>10, <1>11

LEMMA ClaimControlAnswers ==
    ASSUME Known, OnceInv', UNCHANGED ActionOf, NEW e \in Executors, ClaimControl(e) PROVE AnswersInv'
<1>0. /\ CallsShaped /\ UsesShaped /\ RowsHold /\ call[e].pc = "exec" /\ lock = ""
  BY DEF Known, WorkInv, WorkShaped, AnswersInv, ClaimControl, Controlling, At
<1>1. PICK k \in Keys : k = K(e)
  BY <1>0 DEF CallsShaped, K
<1>2. PICK r \in Runs : r = call[e].run
  BY <1>0 DEF RowsHold
<1>3. PICK a : a = ActionOf[k] /\ a = Act(e)
  BY <1>1 DEF Act
<1>4. PICK repl : repl = (IF a = "steer" THEN k ELSE 0) /\ repl = Replacement(e)
  BY <1>1, <1>3 DEF Replacement
<1>5. /\ a \in Controls /\ CanClaim(a, r, repl) /\ TakeClaim(a, r, repl)
      /\ a = "steer" => run[k].st = "none" \/ claim.repl = k
  BY <1>1, <1>2, <1>3, <1>4 DEF ClaimControl, Controlling
<1>6. /\ use[k].st = "pending" /\ use[k].exec = e /\ use[k].source = r /\ use[k].op \in {0, ClaimOp}
      /\ use' = [use EXCEPT ![k].op = ClaimOp]
  BY <1>1, <1>2 DEF ClaimControl, BindOk
<1>7. UNCHANGED <<current, dismissed, proven, effects>>
  BY DEF ClaimControl
<1>8. /\ use'[k].op = ClaimOp /\ use'[k].st = "pending" /\ use'[k].source = r /\ use'[k].exec = e
      /\ use'[k].resp = use[k].resp /\ \A q \in Keys : q # k => use'[q] = use[q]
  BY <1>0, <1>6 DEF UsesShaped
<1>9. \A q \in Keys : /\ use'[q].source = use[q].source
                      /\ use'[q].op = use[q].op \/ (use[q].op \in {0, ClaimOp} /\ use'[q].op = ClaimOp)
  BY <1>6, <1>8
<1>10. /\ StepOn /\ OutcomesKnown' /\ ClaimTrue'
       /\ claim'.op = ClaimOp /\ ClaimOp # 0 /\ claim'.act = a /\ claim'.target = r
       /\ claim'.repl = repl /\ ClaimOp <= lastOp'
       /\ \A q \in Keys : use'[q].op = use[q].op /\ (a = "steer" => q # repl) => KeyTrue(q)'
       /\ \A q \in Runs : run'[q].at \in Nat /\ run'[q].at <= 1 + Cardinality(Runs)
       /\ worker'.outcome \in {"", worker.outcome}
  BY <1>4, <1>5, <1>7, <1>9, ClaimAnswers
<1>11. KeysTrue'
  <2>1. ASSUME NEW q \in Keys, q # k PROVE KeyTrue(q)'
    BY <1>4, <1>8, <1>10, <2>1
  <2>2. KeyTrue(k)'
    <3>1. ~Overtaken(k)'
      BY <1>8, <1>10 DEF Overtaken, OutcomesKnown, Lost
    <3>2. ActionOf[k] \notin Creating \cup {"retry_run"}
      BY <1>3, <1>5 DEF Controls, Creating
    <3>3. ClaimIsOf(k)'
      BY <1>3, <1>4, <1>8, <1>10 DEF ClaimIsOf
    <3>4. QED BY <1>8, <1>10, <3>1, <3>2, <3>3 DEF KeyTrue
  <2>3. QED BY <2>1, <2>2 DEF KeysTrue
<1>12. ReceiptsTrue'
  <2>1. ASSUME NEW q \in Keys PROVE ReceiptTrue(q)'
    <3>1. ReceiptTrue(q)
      BY DEF Known, AnswersInv, ReceiptsTrue
    <3>2. use'[q].resp = use[q].resp
      BY <1>8
    <3>3. QED BY <1>10, <3>2, ReceiptStays
  <2>2. QED BY <2>1 DEF ReceiptsTrue
<1>13. /\ call'[e].pc = "claimed" /\ call'[e].key = call[e].key /\ call'[e].run = 0
       /\ \A d \in Executors : d # e => call'[d] = call[d]
  <2>1. Goto(e, "claimed")
    BY DEF ClaimControl
  <2>2. QED BY <1>0, <2>1, CallGoes, RequestsMove
<1>14. CallTrue(e)'
  <2>1. K(e)' = k
    BY <1>1, <1>13 DEF K
  <2>2. QED BY <1>8, <1>10, <1>13, <2>1 DEF CallTrue
<1>15. CallsTrue' /\ \A d \in Executors : call'[d].run \in Runs
  <2>1. \A d \in Executors : call[d].pc # "claimed"
    BY <1>0, ExecutorsAssumption DEF Known, WorkInv, ClaimStands, AtClaim
  <2>2. 0 \in Runs
    BY DEF Runs
  <2>3. QED BY <1>8, <1>10, <1>13, <1>14, <2>1, <2>2, OthersStay
<1>16. RowsHold'
  <2>1. \A q \in Keys : use'[q].source \in Runs
    BY <1>0, <1>9 DEF RowsHold
  <2>2. QED BY <1>0, <1>7, <1>10, <1>15, <2>1 DEF RowsHold, Runs
<1>17. QED BY <1>10, <1>11, <1>12, <1>15, <1>16 DEF AnswersInv

LEMMA ClaimCancelAnswers ==
    ASSUME Known, OnceInv', UNCHANGED ActionOf, NEW e \in Executors, ClaimCancel(e) PROVE AnswersInv'
<1>0. CallsShaped /\ RowsHold /\ call[e].pc = "cancel" /\ lock = "" /\ 0 \in Runs /\ CallTrue(e)
  BY DEF Known, WorkInv, WorkShaped, AnswersInv, CallsTrue, ClaimCancel, At, Runs
<1>1. /\ CanClaim("stop", 0, 0) /\ TakeClaim("stop", 0, 0) /\ Goto(e, "cancelling")
      /\ UNCHANGED <<current, dismissed, proven, use, effects>>
  BY DEF ClaimCancel
<1>2. PICK a : a = "stop" /\ CanClaim(a, 0, 0) /\ TakeClaim(a, 0, 0)
  BY <1>1
<1>3. /\ StepOn /\ OutcomesKnown' /\ ClaimTrue'
      /\ claim'.op = ClaimOp /\ ClaimOp # 0 /\ claim'.act = a /\ claim'.target = 0
      /\ claim'.repl = 0 /\ ClaimOp <= lastOp'
      /\ \A q \in Keys : use'[q].op = use[q].op /\ (a = "steer" => q # 0) => KeyTrue(q)'
      /\ \A q \in Runs : run'[q].at \in Nat /\ run'[q].at <= 1 + Cardinality(Runs)
      /\ worker'.outcome \in {"", worker.outcome}
  <2>1. \A q \in Keys : use'[q].source = use[q].source /\ use'[q].op = use[q].op
    BY <1>1
  <2>2. a # "steer"
    BY <1>2
  <2>3. QED BY <1>0, <1>1, <1>2, <2>1, <2>2, ClaimAnswers
<1>4. KeysTrue' /\ ReceiptsTrue'
  BY <1>1, <1>2, <1>3, ReceiptsRest DEF KeysTrue
<1>5. /\ call'[e].pc = "cancelling" /\ call'[e].key = call[e].key /\ call'[e].run = 0
      /\ \A d \in Executors : d # e => call'[d] = call[d]
  BY <1>0, <1>1, CallGoes, RequestsMove
<1>6. CallTrue(e)'
  <2>1. Act(e)' = "cancel_run"
    BY <1>0, <1>5 DEF CallTrue, Act, K
  <2>2. QED BY <1>5, <2>1 DEF CallTrue
<1>7. CallsTrue' /\ \A d \in Executors : call'[d].run \in Runs
  <2>1. \A d \in Executors : call[d].pc # "claimed"
    BY <1>0, ExecutorsAssumption DEF Known, WorkInv, ClaimStands, AtClaim
  <2>2. K(e) \in Keys
    BY <1>0 DEF CallsShaped, K
  <2>3. QED BY <1>0, <1>1, <1>3, <1>5, <1>6, <2>1, <2>2, OthersStay
<1>8. RowsHold'
  BY <1>0, <1>1, <1>3, <1>7 DEF RowsHold, Runs
<1>9. QED BY <1>3, <1>4, <1>7, <1>8 DEF AnswersInv

(* Finalising a claim.  The target ended by itself, and nothing took effect; or it took effect for
   every receipt that is bound to the operation.                             *)
FinalizedLost ==
    /\ TerminalWon /\ claim.act # "resume" /\ UNCHANGED effects
    /\ Event(claim.op, "terminal_won") \/ Event(claim.op, "completion_won")
    /\ claim.act = "steer" => /\ run'[claim.repl].st = "cancelled"
                              /\ run'[claim.target].st \in OverStates /\ current' = claim.target
FinalizedDone ==
    /\ ~TerminalWon /\ Counted(claim.op)
    /\ \E ev \in Effective : Event(claim.op, ev)

LEMMA FinalizedOneWay ==
    ASSUME Known, claim.op # 0, FinalizeClaim
    PROVE  /\ FinalizedLost \/ FinalizedDone
           /\ \A r \in Runs : /\ run[r].st \in OverStates => run'[r].st = run[r].st
                              /\ run'[r].st # "none" => run[r].st # "none"
                              /\ run'[r].at = run[r].at
           /\ current' \in Runs /\ worker'.outcome \in {"cancelled", "completion_won", worker.outcome}
           /\ claim'.op = 0 /\ claim'.repl = 0 /\ claim'.target = 0
<1> DEFINE t == claim.target
           p == claim.repl
<1>0. /\ RunsShaped /\ WorkerShaped /\ RowsHold /\ ClaimTrue /\ t \in Runs /\ run[t].st # "none"
      /\ current \in Runs
  BY DEF Known, WorkInv, WorkShaped, AnswersInv, RowsHold, ClaimTrue
<1>1. claim'.op = 0 /\ claim'.repl = 0 /\ claim'.target = 0
  BY DEF FinalizeClaim, NoClaim
<1>2. claim.act = "steer" => p \in Runs /\ p # t /\ run[p].st \in {"queued", "cancelled"}
  BY <1>0 DEF ClaimTrue, Runs
<1>3. claim.act = "resume" => ~TerminalWon
  BY <1>0 DEF ClaimTrue, TerminalWon, OverStates
<1>4. p # 0 => claim.act = "steer"
  BY <1>0 DEF ClaimTrue
<1>5. CASE TerminalWon /\ claim.act # "stop"
  <2>1. /\ run' = IF p # 0 /\ run[p].st = "queued" THEN [run EXCEPT ![p].st = "cancelled"] ELSE run
        /\ current' = IF claim.act = "steer" THEN t ELSE current
        /\ worker' = [worker EXCEPT !.st = "ready"]
        /\ Event(claim.op, "terminal_won") /\ UNCHANGED effects
    BY <1>3, <1>5 DEF FinalizeClaim
  <2>2. /\ \A r \in Runs : \/ run'[r] = run[r]
                           \/ run[r].st = "queued" /\ run'[r].st = "cancelled" /\ run'[r].at = run[r].at
        /\ p \in Runs /\ p # 0 => run'[p].st = "cancelled" \/ run[p].st # "queued"
        /\ t # p => run'[t] = run[t]
    <3>1. CASE p # 0 /\ run[p].st = "queued"
      <4>1. run' = [run EXCEPT ![p].st = "cancelled"]
        BY <2>1, <3>1
      <4>2. QED BY <1>0, <3>1, <4>1 DEF RunsShaped
    <3>2. CASE ~(p # 0 /\ run[p].st = "queued")
      <4>1. run' = run
        BY <2>1, <3>2
      <4>2. QED BY <3>2, <4>1
    <3>3. QED BY <3>1, <3>2
  <2>2a. \A r \in Runs : run[r].st # "queued" => run'[r] = run[r]
    BY <2>2
  <2>3. run[t].st \in OverStates
    BY <1>5 DEF TerminalWon
  <2>4. claim.act = "steer" => /\ run'[p].st = "cancelled" /\ run'[t].st \in OverStates
                               /\ current' = t
    <3>1. ASSUME claim.act = "steer" PROVE p # 0
      BY <1>0, <3>1, KeysAssumption DEF ClaimTrue
    <3>2. ASSUME claim.act = "steer" PROVE run'[p].st = "cancelled"
      BY <1>2, <2>2, <2>2a, <3>1, <3>2
    <3>3. QED BY <1>2, <2>1, <2>2, <2>3, <3>2
  <2>5. FinalizedLost
    BY <1>3, <1>5, <2>1, <2>4 DEF FinalizedLost
  <2>6. worker'.outcome = worker.outcome
    BY <1>0, <2>1 DEF WorkerShaped
  <2>7. \A r \in Runs : /\ run[r].st \in OverStates => run'[r].st = run[r].st
                        /\ run'[r].st # "none" => run[r].st # "none"
                        /\ run'[r].at = run[r].at
    BY <2>2 DEF OverStates
  <2>8. QED BY <1>0, <1>1, <2>1, <2>5, <2>6, <2>7
<1>6. CASE claim.act = "stop"
  <2>1. /\ run' = [r \in Runs |-> IF run[r].st \in Controllable
                                  THEN [run[r] EXCEPT !.st = "cancelled"] ELSE run[r]]
        /\ worker' = [worker EXCEPT !.st = "ready",
                        !.outcome = IF TerminalWon THEN "completion_won" ELSE "cancelled"]
        /\ Event(claim.op, worker'.outcome)
        /\ IF TerminalWon THEN UNCHANGED effects ELSE Counted(claim.op)
        /\ UNCHANGED current
    BY <1>6 DEF FinalizeClaim
  <2>2. worker'.outcome = IF TerminalWon THEN "completion_won" ELSE "cancelled"
    BY <1>0, <2>1 DEF WorkerShaped
  <2>3. \A r \in Runs : /\ run[r].st \in OverStates => run'[r].st = run[r].st
                        /\ run'[r].st # "none" => run[r].st # "none"
                        /\ run'[r].at = run[r].at
    BY <1>0, <2>1 DEF OverStates, Controllable, RunsShaped
  <2>4. FinalizedLost \/ FinalizedDone
    BY <1>6, <2>1, <2>2 DEF FinalizedLost, FinalizedDone, Effective
  <2>5. QED BY <1>0, <1>1, <2>1, <2>2, <2>3, <2>4
<1>7. CASE ~TerminalWon /\ claim.act = "steer"
  <2>1. PICK s \in {"interrupted", "cancelled"} :
          /\ run' = [run EXCEPT ![t].st = s] /\ Event(claim.op, s)
          /\ run[t].st = "interrupted" => s = "interrupted"
    BY <1>7 DEF FinalizeClaim
  <2>2. /\ current' = p /\ worker' = [worker EXCEPT !.st = "starting"] /\ Counted(claim.op)
    BY <1>7 DEF FinalizeClaim
  <2>3. worker'.outcome = worker.outcome
    BY <1>0, <2>2 DEF WorkerShaped
  <2>4. run[t].st \notin OverStates \ {"interrupted"}
    BY <1>7 DEF TerminalWon
  <2>5. \A r \in Runs : /\ run[r].st \in OverStates => run'[r].st = run[r].st
                        /\ run'[r].st # "none" => run[r].st # "none"
                        /\ run'[r].at = run[r].at
    BY <1>0, <2>1, <2>4 DEF RunsShaped
  <2>6. FinalizedDone
    BY <1>7, <2>1, <2>2 DEF FinalizedDone, Effective
  <2>7. QED BY <1>1, <1>2, <1>7, <2>2, <2>3, <2>5, <2>6
<1>8. CASE ~TerminalWon /\ claim.act \notin {"stop", "steer"}
  <2>1. PICK s, w : /\ run' = [run EXCEPT ![t].st = s] /\ s # "none"
                    /\ worker' = [worker EXCEPT !.st = w]
    BY <1>8 DEF FinalizeClaim
  <2>2. Counted(claim.op) /\ UNCHANGED current
    BY <1>8 DEF FinalizeClaim
  <2>3. Event(claim.op, "paused") \/ Event(claim.op, "resumed")
    BY <1>8 DEF FinalizeClaim
  <2>4. worker'.outcome = worker.outcome
    BY <1>0, <2>1 DEF WorkerShaped
  <2>5. run[t].st \notin OverStates
    BY <1>8 DEF TerminalWon
  <2>6. \A r \in Runs : /\ run[r].st \in OverStates => run'[r].st = run[r].st
                        /\ run'[r].st # "none" => run[r].st # "none"
                        /\ run'[r].at = run[r].at
    BY <1>0, <2>1, <2>5 DEF RunsShaped
  <2>7. FinalizedDone
    BY <1>8, <2>2, <2>3 DEF FinalizedDone, Effective
  <2>8. QED BY <1>0, <1>1, <2>2, <2>4, <2>6, <2>7
<1>9. QED BY <1>5, <1>6, <1>7, <1>8

LEMMA FinalizedAnswers ==
    ASSUME Known, OnceInv', UNCHANGED <<ActionOf, dismissed, lastOp>>, claim.op # 0, FinalizeClaim,
           \A q \in Keys : use'[q].op = use[q].op /\ use'[q].source = use[q].source
    PROVE  /\ StepOn /\ OutcomesKnown' /\ ClaimTrue' /\ KeysTrue'
           /\ \A q \in Keys : use[q].op = claim.op =>
                 /\ FinalizedLost => Overtaken(q)'
                 /\ FinalizedDone => TookEffect(q)'
<1>0. /\ ClaimShaped /\ RowsHold /\ ClaimTrue /\ OutcomesKnown /\ claim.op <= lastOp
      /\ \A q \in Keys : KeyTrue(q) /\ Once(q) /\ use[q].op \in Nat /\ q \in Runs
  BY DEF Known, WorkInv, WorkShaped, UsesShaped, AnswersInv, OnceInv, KeysTrue, Runs
<1>1. /\ FinalizedLost \/ FinalizedDone
      /\ \A r \in Runs : /\ run[r].st \in OverStates => run'[r].st = run[r].st
                         /\ run'[r].st # "none" => run[r].st # "none"
      /\ claim'.op = 0 /\ claim'.repl = 0 /\ claim'.target = 0
  BY FinalizedOneWay
<1>2. PICK op : op = claim.op
  OBVIOUS
<1>3. PICK ev : proven' = proven \cup {<<op, ev>>}
  BY <1>1, <1>2 DEF FinalizedLost, FinalizedDone, Event
<1>4. \A x : x # op => Lost(x)' = Lost(x)
  BY <1>3 DEF Lost
<1>5. ~Lost(op) /\ op # 0 /\ op \in Nat /\ op <= lastOp
  BY <1>0, <1>2 DEF OutcomesKnown, Lost, ClaimShaped
<1>6. /\ FinalizedLost => Lost(op)'
      /\ FinalizedDone => ~Lost(op)'
  <2>1. ASSUME FinalizedLost PROVE Lost(op)'
    BY <1>2, <2>1 DEF FinalizedLost, Event, Lost
  <2>2. ASSUME FinalizedDone PROVE ~Lost(op)'
    <3>1. PICK x \in Effective : proven' = proven \cup {<<op, x>>}
      BY <1>2, <2>2 DEF FinalizedDone, Event
    <3>2. x # "terminal_won" /\ x # "completion_won"
      BY DEF Effective
    <3>3. QED BY <1>5, <3>1, <3>2 DEF Lost
  <2>3. QED BY <2>1, <2>2
<1>7. \A x \in proven' : x[1] = op /\ x[2] \in Effective => ~Lost(op)'
  <2>1. ASSUME NEW x \in proven', x[1] = op, x[2] \in Effective PROVE ~Lost(op)'
    <3>1. x = <<op, ev>>
      BY <1>0, <1>2, <1>3, <2>1 DEF OutcomesKnown
    <3>2. ev # "terminal_won" /\ ev # "completion_won"
      BY <2>1, <3>1 DEF Effective
    <3>3. QED BY <1>3, <1>5, <3>2 DEF Lost
  <2>2. QED BY <2>1
<1>8. StepOn
  <2>1. OpsOn
    BY <1>0, <1>1 DEF OpsOn, ClaimShaped
  <2>2. \A q \in Keys : effects[q] # 0 => effects'[q] # 0
    <3>1. ASSUME NEW q \in Keys, effects[q] # 0 PROVE effects'[q] # 0
      <4>1. effects[q] \in Nat
        BY <1>0 DEF Once
      <4>2. CASE UNCHANGED effects
        BY <3>1, <4>2
      <4>3. CASE Counted(claim.op)
        <5>1. effects'[q] \in {effects[q], effects[q] + 1}
          BY <4>1, <4>3 DEF Counted
        <5>2. QED BY <3>1, <4>1, <5>1
      <4>4. QED BY <1>1, <4>2, <4>3 DEF FinalizedLost, FinalizedDone
    <3>2. QED BY <3>1
  <2>3. QED BY <1>1, <1>3, <2>1, <2>2 DEF StepOn
<1>9. OutcomesKnown'
  <2>1. ASSUME NEW x \in proven'
        PROVE  /\ x[1] \in Nat /\ x[1] # 0 /\ x[1] <= lastOp' /\ x[1] # claim'.op
               /\ x[2] \in Effective => ~Lost(x[1])'
    <3>1. CASE x \in proven
      <4>1. /\ x[1] \in Nat /\ x[1] # 0 /\ x[1] <= lastOp /\ x[1] # op
            /\ x[2] \in Effective => ~Lost(x[1])
        BY <1>0, <1>2, <3>1 DEF OutcomesKnown
      <4>2. QED BY <1>1, <1>4, <4>1
    <3>2. CASE x = <<op, ev>>
      BY <1>1, <1>5, <1>7, <2>1, <3>2
    <3>3. QED BY <1>3, <2>1, <3>1, <3>2
  <2>2. QED BY <2>1 DEF OutcomesKnown, Lost
<1>10. ClaimTrue'
  BY <1>1 DEF ClaimTrue
<1>11. ASSUME NEW q \in Keys, use[q].op = op
       PROVE  /\ KeyTrue(q)'
              /\ FinalizedLost => Overtaken(q)'
              /\ FinalizedDone => TookEffect(q)'
  <2>1. /\ ClaimIsOf(q) /\ use'[q].op = op /\ use'[q].source = use[q].source
        /\ ActionOf[q] \in Controls /\ effects[q] \in Nat
    BY <1>0, <1>2, <1>5, <1>11 DEF KeyTrue, Once
  <2>2. ActionOf[q] \notin Creating \cup {"retry_run"}
    BY <2>1 DEF Controls, Creating
  <2>3. Overtaken(q)' <=> Lost(op)'
    BY <2>1 DEF Overtaken
  <2>4. CASE FinalizedLost
    <3>1. ActionOf[q] # "resume" /\ effects'[q] = 0
      BY <1>0, <1>2, <1>11, <2>1, <2>4 DEF FinalizedLost, ClaimIsOf, Once
    <3>2. ActionOf[q] = "steer" => run'[q].st = "cancelled" /\ run'[use'[q].source].st \in OverStates
      BY <2>1, <2>4 DEF FinalizedLost, ClaimIsOf
    <3>3. Overtaken(q)'
      BY <1>6, <2>3, <2>4
    <3>4. ~FinalizedDone
      BY <2>4 DEF FinalizedLost, FinalizedDone
    <3>5. QED BY <1>1, <1>5, <2>1, <2>2, <3>1, <3>2, <3>3, <3>4 DEF KeyTrue
  <2>5. CASE FinalizedDone
    <3>1. effects'[q] = effects[q] + 1
      BY <1>2, <1>11, <2>5 DEF FinalizedDone, Counted, Bound
    <3>2. effects'[q] # 0 /\ effects'[q] >= 1
      BY <2>1, <3>1
    <3>3. ~Overtaken(q)'
      BY <1>6, <2>3, <2>5
    <3>4. ~FinalizedLost
      BY <2>5 DEF FinalizedLost, FinalizedDone
    <3>5. QED BY <1>1, <1>5, <2>1, <2>2, <3>2, <3>3, <3>4 DEF KeyTrue, TookEffect
  <2>6. QED BY <1>1, <2>4, <2>5
<1>12. ASSUME NEW q \in Keys, use[q].op # op PROVE KeyTrue(q)'
  <2>1. Overtaken(q)' = Overtaken(q)
    BY <1>4, <1>12 DEF Overtaken
  <2>2. effects'[q] = effects[q]
    <3>1. effects[q] \in Nat
      BY <1>0 DEF Once
    <3>2. QED BY <1>1, <1>2, <1>12, <3>1 DEF FinalizedLost, FinalizedDone, Counted, Bound
  <2>3. run'[q].st # "none" => run[q].st # "none"
    BY <1>0, <1>1
  <2>4. QED BY <1>1, <1>2, <1>8, <1>12, <2>1, <2>2, <2>3, KeyStays
<1>13. QED BY <1>2, <1>8, <1>9, <1>10, <1>11, <1>12 DEF KeysTrue

LEMMA FinalizeAnswers ==
    ASSUME Known, OnceInv', UNCHANGED ActionOf, NEW e \in Executors, Finalize(e) \/ FinishCancel(e)
    PROVE  AnswersInv'
<1>0. /\ CallsShaped /\ RowsHold /\ ClaimTrue /\ CallTrue(e) /\ claim.op # 0 /\ lock = e
      /\ call[e].pc \in AtClaim /\ FinalizeClaim
  BY DEF Known, WorkInv, WorkShaped, AnswersInv, CallsTrue, Finalize, FinishCancel, At, ClaimStands, AtClaim
<1>1. /\ UNCHANGED <<dismissed, lastOp>> /\ UsesShaped
      /\ \A q \in Keys :
           /\ use'[q].op = use[q].op /\ use'[q].source = use[q].source
           /\ use'[q].resp = use[q].resp /\ use'[q].exec = use[q].exec
           /\ use'[q].st = "pending" => use[q].st = "pending"
  BY ReceiptsFinal DEF Finalize, FinishCancel, Known, WorkInv, WorkShaped
<1>2. PICK k \in Keys : k = K(e)
  BY <1>0 DEF CallsShaped, K, AtClaim
<1>3. /\ StepOn /\ OutcomesKnown' /\ ClaimTrue' /\ KeysTrue'
      /\ use[k].op = claim.op =>
            /\ FinalizedLost => Overtaken(k)'
            /\ FinalizedDone => TookEffect(k)'
  BY <1>0, <1>1, FinalizedAnswers
<1>4. /\ FinalizedLost \/ FinalizedDone
      /\ \A r \in Runs : run'[r].at = run[r].at
      /\ current' \in Runs /\ worker'.outcome \in {"cancelled", "completion_won", worker.outcome}
      /\ claim'.target = 0
  BY <1>0, FinalizedOneWay
<1>5. ReceiptsTrue'
  <2>1. ASSUME NEW q \in Keys PROVE ReceiptTrue(q)'
    BY <1>1, <1>3, <2>1, ReceiptStays
  <2>2. QED BY <2>1 DEF ReceiptsTrue
<1>6. /\ CallTrue(e)' /\ call'[e].run \in Runs
      /\ \A d \in Executors : d # e => call'[d] = call[d]
  <2>1. CASE Finalize(e)
    <3>1. use[k].op = claim.op
      BY <1>0, <1>2, <2>1 DEF CallTrue, Finalize, At
    <3>2. PICK r, res, adv :
             /\ Answer(e, r, res, adv) /\ r \in {claim.repl, claim.target}
             /\ r = claim.repl => claim.act = "steer" \/ r = claim.target
             /\ res = IF TerminalWon THEN "terminal_won" ELSE "effect"
      BY <2>1 DEF Finalize
    <3>3. /\ call'[e].pc = "answer" /\ call'[e].key = call[e].key /\ call'[e].run = r
          /\ call'[e].res = res /\ \A d \in Executors : d # e => call'[d] = call[d]
      BY <1>0, <3>2 DEF Answer, CallsShaped, NoCall
    <3>4. /\ res = "effect" => TookEffect(k)'
          /\ res = "terminal_won" => Overtaken(k)'
      BY <1>3, <1>4, <3>1, <3>2 DEF FinalizedLost, FinalizedDone
    <3>5. CallTrue(e)'
      BY <1>2, <3>3, <3>4, AnswerIsTrue
    <3>6. r \in Runs
      BY <1>0, <3>2 DEF RowsHold, ClaimTrue, Runs
    <3>7. QED BY <3>3, <3>5, <3>6
  <2>2. CASE FinishCancel(e)
    <3>1. /\ call'[e].pc = "cancelled" /\ call'[e].key = call[e].key /\ call'[e].run = 0
          /\ \A d \in Executors : d # e => call'[d] = call[d]
      <4>1. Goto(e, "cancelled") /\ call[e].pc # "idle"
        BY <2>2 DEF FinishCancel, At
      <4>2. QED BY <1>0, <4>1, CallGoes, RequestsMove
    <3>2. Act(e)' = "cancel_run"
      BY <1>0, <2>2, <3>1 DEF CallTrue, Act, K, FinishCancel, At
    <3>3. CallTrue(e)'
      BY <3>1, <3>2 DEF CallTrue
    <3>4. QED BY <3>1, <3>3 DEF Runs
  <2>3. QED BY <2>1, <2>2
<1>7. CallsTrue' /\ \A d \in Executors : call'[d].run \in Runs
  <2>1. ASSUME NEW d \in Executors, d # e PROVE CallTrue(d)'
    <3>1. call[d].pc # "claimed" /\ call'[d] = call[d] /\ K(d)' = K(d)
      BY <1>0, <1>6, <2>1 DEF Known, WorkInv, ClaimStands, AtClaim, K
    <3>2. call[d].pc # "idle" /\ Ours(d)' => Ours(d) /\ use'[K(d)].op = use[K(d)].op
      BY <1>0, <1>1, <3>1 DEF Ours, CallsShaped, K
    <3>3. QED BY <1>3, <3>1, <3>2, CallStays
  <2>2. QED BY <1>0, <1>6, <2>1 DEF CallsTrue, RowsHold
<1>8. RowsHold'
  BY <1>0, <1>1, <1>4, <1>7 DEF RowsHold, Runs
<1>9. QED BY <1>3, <1>5, <1>7, <1>8 DEF AnswersInv

(* Whoever finishes an expired claim answers a receipt bound to it, if its steer took effect.  *)
LEMMA RecoverAnswers ==
    ASSUME Known, OnceInv', UNCHANGED ActionOf, RecoverClaim PROVE AnswersInv'
<1>0. /\ CallsShaped /\ UsesShaped /\ RowsHold /\ ClaimTrue /\ claim.op # 0 /\ lock = "" /\ FinalizeClaim
      /\ UNCHANGED <<dismissed, lastOp, call>>
  BY DEF Known, WorkInv, WorkShaped, AnswersInv, RecoverClaim
<1>1. ASSUME NEW q \in Keys
      PROVE  \/ use'[q] = ReceiptsFinalized[q]
             \/ /\ use[q].op = claim.op /\ claim.act = "steer" /\ current' = claim.repl
                /\ use'[q] = [use[q] EXCEPT !.st = "completed", !.resp = "effect"]
  BY DEF RecoverClaim, Bound
<1>2. \A q \in Keys : /\ use'[q].op = use[q].op /\ use'[q].source = use[q].source
                      /\ use'[q].exec = use[q].exec
                      /\ use'[q].st = "pending" => use[q].st = "pending"
                      /\ \/ use'[q].resp = use[q].resp
                         \/ /\ use[q].op = claim.op /\ claim.act = "steer" /\ current' = claim.repl
                            /\ use'[q].st = "completed" /\ use'[q].resp = "effect"
  <2>1. ASSUME NEW q \in Keys, use'[q] = ReceiptsFinalized[q]
        PROVE  /\ use'[q].op = use[q].op /\ use'[q].source = use[q].source
               /\ use'[q].exec = use[q].exec /\ use'[q].resp = use[q].resp
               /\ use'[q].st = "pending" => use[q].st = "pending"
    BY <1>0, <2>1, ReceiptsFinal
  <2>2. ASSUME NEW q \in Keys, use'[q] = [use[q] EXCEPT !.st = "completed", !.resp = "effect"]
        PROVE  /\ use'[q].op = use[q].op /\ use'[q].source = use[q].source
               /\ use'[q].exec = use[q].exec
               /\ use'[q].st = "completed" /\ use'[q].resp = "effect"
    BY <1>0, <2>2 DEF UsesShaped
  <2>3. QED BY <1>1, <2>1, <2>2
<1>3. /\ StepOn /\ OutcomesKnown' /\ ClaimTrue' /\ KeysTrue'
      /\ \A q \in Keys : use[q].op = claim.op => (FinalizedDone => TookEffect(q)')
  BY <1>0, <1>2, FinalizedAnswers
<1>4. /\ FinalizedLost \/ FinalizedDone
      /\ \A r \in Runs : run'[r].at = run[r].at
      /\ current' \in Runs /\ worker'.outcome \in {"cancelled", "completion_won", worker.outcome}
      /\ claim'.target = 0
  BY <1>0, FinalizedOneWay
<1>5. ReceiptsTrue'
  <2>1. ASSUME NEW q \in Keys PROVE ReceiptTrue(q)'
    <3>1. ReceiptTrue(q)
      BY DEF Known, AnswersInv, ReceiptsTrue
    <3>2. CASE use'[q].resp = use[q].resp
      BY <1>3, <3>2, ReceiptStays
    <3>3. CASE /\ use[q].op = claim.op /\ claim.act = "steer" /\ current' = claim.repl
               /\ use'[q].st = "completed" /\ use'[q].resp = "effect"
      <4>1. ~FinalizedLost
        BY <1>0, <3>3 DEF FinalizedLost, ClaimTrue
      <4>2. TookEffect(q)'
        BY <1>3, <1>4, <3>3, <4>1
      <4>3. QED BY <3>3, <4>2 DEF ReceiptTrue
    <3>4. QED BY <1>2, <3>2, <3>3
  <2>2. QED BY <2>1 DEF ReceiptsTrue
<1>6. CallsTrue'
  <2>1. ASSUME NEW d \in Executors PROVE CallTrue(d)'
    <3>1. call[d].pc # "claimed" /\ call'[d] = call[d] /\ K(d)' = K(d)
      BY <1>0, ExecutorsAssumption DEF Known, WorkInv, ClaimStands, AtClaim, K
    <3>2. call[d].pc # "idle" /\ Ours(d)' => Ours(d) /\ use'[K(d)].op = use[K(d)].op
      BY <1>0, <1>2, <3>1 DEF Ours, CallsShaped, K
    <3>3. QED BY <1>3, <3>1, <3>2, CallStays
  <2>2. QED BY <2>1 DEF CallsTrue
<1>7. RowsHold'
  BY <1>0, <1>2, <1>4 DEF RowsHold, Runs
<1>8. QED BY <1>3, <1>5, <1>6, <1>7 DEF AnswersInv

LEMMA AnswersStep ==
    ASSUME Known, OnceInv', [AwNext /\ UNCHANGED ActionOf]_awVars PROVE AnswersInv'
<1>1. CASE UNCHANGED awVars
  <2>1. AnswersInv
    BY DEF Known
  <2>2. RowsHold' /\ OutcomesKnown' /\ ClaimTrue'
    BY <1>1, <2>1 DEF awVars, AnswersInv, RowsHold, OutcomesKnown, ClaimTrue, Lost
  <2>3. KeysTrue' /\ ReceiptsTrue'
    BY <1>1, <2>1 DEF awVars, AnswersInv, KeysTrue, KeyTrue, ReceiptsTrue, ReceiptTrue, Overtaken, Lost,
                      ClaimIsOf, TookEffect
  <2>4. CallsTrue'
    BY <1>1, <2>1 DEF awVars, AnswersInv, CallsTrue, CallTrue, Overtaken, Lost, TookEffect, Ours, Act, K
  <2>5. QED BY <2>2, <2>3, <2>4 DEF AnswersInv
<1>2. ASSUME UNCHANGED ActionOf, NEW e \in Executors, RequestStep(e) PROVE AnswersInv'
  BY <1>2, QuietAnswers, CreatingAnswers, DismissAnswers, ResumeAnswers, ClaimControlAnswers,
     ClaimCancelAnswers, FinalizeAnswers DEF RequestStep, Quiet
<1>3. ASSUME UNCHANGED ActionOf, NEW e \in Executors,
             Unconfirmed(e) \/ CancelUnconfirmed(e) \/ Stumble(e) \/ Die(e)
      PROVE  AnswersInv'
  BY <1>3, QuietAnswers DEF Quiet
<1>4. ASSUME UNCHANGED ActionOf, NEW e \in Executors, NEW k \in Keys,
             Begin(e, k) \/ RetryRun(e, k) \/ ReserveCancel(e, k)
      PROVE  AnswersInv'
  BY <1>4, QuietAnswers, RetryAnswers DEF Quiet
<1>5. ASSUME UNCHANGED ActionOf,
             (\E k \in Keys : ExpireUse(k)) \/ ExpireClaim \/ RecoverClaim \/ \E r \in Runs : RunMoves(r)
      PROVE  AnswersInv'
  BY <1>5, ExpiringAnswers, RecoverAnswers, RunMovesAnswers
<1>6. QED BY <1>1, <1>2, <1>3, <1>4, <1>5 DEF AwNext

LEMMA AnswersFollow == ASSUME Known PROVE WorkOnceAndTrue
<1>1. EffectOnce
  BY DEF Known, OnceInv, Once, EffectOnce
<1>2. ASSUME NEW k \in Keys
      PROVE  /\ use[k].resp = "effect" => TookEffect(k)
             /\ use[k].resp = "terminal_won" =>
                   /\ effects[k] = 0
                   /\ ActionOf[k] = "steer" => run[k].st = "cancelled"
  <2>1. ReceiptTrue(k) /\ KeyTrue(k)
    BY DEF Known, AnswersInv, ReceiptsTrue, KeysTrue
  <2>2. QED BY <2>1 DEF ReceiptTrue, KeyTrue
<1>3. AnswersAreTrue
  BY <1>2 DEF AnswersAreTrue
<1>4. QED BY <1>1, <1>3 DEF WorkOnceAndTrue

\* A receipt does not fail in the step, or fails unbound, or fails with the stop.
FailedStays(k) ==
    use'[k].st = "failed" =>
        \/ use'[k].op = 0
        \/ use[k].st = "failed" /\ use'[k].op = use[k].op
        \/ worker'.stop # 0 /\ ActionOf[k] \in Controls \ {"stop"}

LEMMA FenceStep ==
    ASSUME Known, [AwNext /\ UNCHANGED ActionOf]_awVars PROVE FenceInv'
<1>0. /\ WorkShaped /\ WorkerShaped /\ UsesShaped /\ CallsShaped /\ ClaimShaped /\ FenceInv
      /\ ActionOf' = ActionOf
  BY DEF Known, WorkInv, WorkShaped, awVars
<1>1. ASSUME worker.stop # 0 => worker'.stop # 0, \A k \in Keys : FailedStays(k) PROVE FenceInv'
  BY <1>0, <1>1 DEF FenceInv, FailedStays
<1>2. ASSUME UNCHANGED use PROVE \A k \in Keys : FailedStays(k)
  BY <1>2 DEF FailedStays
<1>3. ASSUME worker' = worker \/ \E s : worker' = [worker EXCEPT !.st = s]
      PROVE  worker'.stop = worker.stop
  BY <1>0, <1>3 DEF WorkerShaped
<1>4. CASE UNCHANGED awVars
  BY <1>1, <1>2, <1>4 DEF awVars
<1>5. ASSUME NEW e \in Executors, Quiet(e) PROVE FenceInv'
  <2>1. UNCHANGED worker
    BY <1>5 DEF Quiet, Reserve, FailUnbound, Reconcile, ReadLive, ClaimRefused, Unconfirmed, Finish,
                Fail, Stumble, CancelRefused, CancelUnconfirmed, SettleCancel, Die, Begin, ReserveCancel,
                ledger
  <2>2. ASSUME NEW k \in Keys PROVE FailedStays(k)
    <3>1. ReceiptQuiet(e, k)
      BY <1>5, ReceiptsOfQuiet
    <3>2. QED BY <3>1 DEF ReceiptQuiet, FailedStays
  <2>3. QED BY <1>1, <2>1, <2>2
<1>6. ASSUME NEW e \in Executors, AssignRun(e) \/ ReplaceQueued(e) \/ Dismiss(e) PROVE FenceInv'
  <2>1. UNCHANGED use /\ (worker' = worker \/ \E s : worker' = [worker EXCEPT !.st = s])
    BY <1>6 DEF AssignRun, ReplaceQueued, Dismiss
  <2>2. QED BY <1>1, <1>2, <1>3, <2>1
<1>7. ASSUME NEW e \in Executors, ResumeNeedsInput(e) PROVE FenceInv'
  <2>1. PICK k \in Keys : k = K(e)
    BY <1>0, <1>7 DEF ResumeNeedsInput, At, CallsShaped, K
  <2>2. /\ worker' = worker \/ \E s : worker' = [worker EXCEPT !.st = s]
        /\ \/ UNCHANGED use
           \/ use[k].st = "pending" /\ \E op : use' = [use EXCEPT ![k].op = op]
    BY <1>7, <2>1 DEF ResumeNeedsInput
  <2>3. CASE use[k].st = "pending" /\ \E op : use' = [use EXCEPT ![k].op = op]
    <3>1. \A q \in Keys : FailedStays(q)
      BY <1>0, <2>3 DEF UsesShaped, FailedStays
    <3>2. QED BY <1>1, <1>3, <2>2, <3>1
  <2>4. QED BY <1>1, <1>2, <1>3, <2>2, <2>3
<1>8. ASSUME NEW e \in Executors, ClaimControl(e) \/ ClaimCancel(e) PROVE FenceInv'
  <2>1. \E a, r, repl : TakeClaim(a, r, repl)
    BY <1>8 DEF ClaimControl, ClaimCancel
  <2>2. ClaimOp # 0
    BY <1>0 DEF ClaimOp, ClaimShaped
  <2>3. worker.stop # 0 => worker'.stop # 0
    BY <1>0, <2>1, <2>2 DEF TakeClaim, WorkerShaped
  <2>4. UNCHANGED use \/ \E k : use[k].st = "pending" /\ \E op : use' = [use EXCEPT ![k].op = op]
    BY <1>8 DEF ClaimControl, ClaimCancel, BindOk
  <2>5. CASE \E k : use[k].st = "pending" /\ \E op : use' = [use EXCEPT ![k].op = op]
    <3>1. \A q \in Keys : FailedStays(q)
      BY <1>0, <2>5 DEF UsesShaped, FailedStays
    <3>2. QED BY <1>1, <2>3, <3>1
  <2>6. QED BY <1>1, <1>2, <2>3, <2>4, <2>5
<1>9. ASSUME RecoverClaim \/ \E e \in Executors : Finalize(e) \/ FinishCancel(e) PROVE FenceInv'
  <2>1. claim.op # 0 /\ FinalizeClaim
    BY <1>9 DEF RecoverClaim, Finalize, FinishCancel, At, ClaimStands, AtClaim, Known, WorkInv
  <2>2. worker'.stop = worker.stop
    BY <1>0, <2>1 DEF FinalizeClaim, WorkerShaped
  <2>3. ASSUME NEW k \in Keys PROVE FailedStays(k)
    <3>1. use'[k] = ReceiptsFinalized[k] \/ use'[k] = [use[k] EXCEPT !.st = "completed", !.resp = "effect"]
      BY <1>9 DEF RecoverClaim, Finalize, FinishCancel
    <3>2. CASE use'[k] = ReceiptsFinalized[k]
      <4>1. /\ use'[k].op = use[k].op
            /\ use'[k].st = "failed" /\ use[k].st # "failed" => claim.act = "stop" /\ ActionOf[k] # "stop"
        BY <1>0, <3>2, ReceiptsFinal
      <4>2. ActionOf[k] \notin Controls => use[k].op = 0
        BY DEF Known, OnceInv, Once
      <4>3. claim.act = "stop" => worker.stop # 0
        BY <2>1 DEF Known, WorkInv, StopStands
      <4>4. QED BY <2>2, <4>1, <4>2, <4>3 DEF FailedStays
    <3>3. CASE use'[k] = [use[k] EXCEPT !.st = "completed", !.resp = "effect"]
      BY <1>0, <3>3 DEF UsesShaped, FailedStays
    <3>4. QED BY <3>1, <3>2, <3>3
  <2>4. QED BY <1>1, <2>2, <2>3
<1>10. ASSUME NEW e \in Executors, NEW k \in Keys, RetryRun(e, k) PROVE FenceInv'
  <2>1. /\ worker' = worker \/ \E s : worker' = [worker EXCEPT !.st = s]
        /\ use' = [use EXCEPT ![k].st = "completed", ![k].resp = "effect"]
    BY <1>10 DEF RetryRun
  <2>2. \A q \in Keys : FailedStays(q)
    BY <1>0, <2>1 DEF UsesShaped, FailedStays
  <2>3. QED BY <1>1, <1>3, <2>1, <2>2
<1>11. ASSUME (\E k \in Keys : ExpireUse(k)) \/ ExpireClaim \/ \E r \in Runs : RunMoves(r)
       PROVE  FenceInv'
  <2>1. /\ worker' = worker \/ \E s : worker' = [worker EXCEPT !.st = s]
        /\ UNCHANGED use \/ \E k : use' = [use EXCEPT ![k].live = FALSE]
    BY <1>11 DEF ExpireUse, ExpireClaim, RunMoves, ledger
  <2>2. \A q \in Keys : FailedStays(q)
    BY <1>0, <1>2, <2>1 DEF UsesShaped, FailedStays
  <2>3. QED BY <1>1, <1>3, <2>1, <2>2
<1>12. ASSUME AwNext PROVE FenceInv'
  <2>1. ASSUME NEW e \in Executors, RequestStep(e) PROVE FenceInv'
    BY <1>5, <1>6, <1>7, <1>8, <1>9, <2>1 DEF RequestStep, Quiet
  <2>2. ASSUME NEW e \in Executors,
               \/ Unconfirmed(e) \/ CancelUnconfirmed(e) \/ Stumble(e) \/ Die(e)
               \/ \E k \in Keys : Begin(e, k) \/ RetryRun(e, k) \/ ReserveCancel(e, k)
        PROVE  FenceInv'
    BY <1>5, <1>10, <2>2 DEF Quiet
  <2>3. QED BY <1>9, <1>11, <1>12, <2>1, <2>2 DEF AwNext
<1>13. QED BY <1>4, <1>12

\* The action of an idempotency key takes effect at most once and every stored answer is true of
\* the ledger, whichever processes die, lose a receipt or take it over, and whoever finishes a
\* claim: "effect" is answered only for what took effect, "terminal_won" only when nothing did
\* (reconcile_active_work_action, finish_active_work_action, recover_expired_compute_release_claims_once).
THEOREM ActionsAnswerTruly == AwSpec => []WorkOnceAndTrue
<1>1. AwInit => Known
  <2>1. ASSUME AwInit PROVE FenceInv
    <3>1. use = [k \in Keys |-> NoUse] /\ NoUse.st = "none"
      BY <2>1 DEF AwInit, NoUse
    <3>2. \A k \in Keys : use[k].st = "none"
      BY <3>1, Zenon
    <3>3. QED BY <3>2 DEF FenceInv
  <2>2. QED BY <2>1, WorkStarts, OnceStarts, AnswersStart DEF Known
<1>2. Known /\ [AwNext /\ UNCHANGED ActionOf]_awVars => Known'
  BY WorkStep, OnceStep, AnswersStep, FenceStep DEF Known
<1>3. Known => WorkOnceAndTrue
  BY AnswersFollow
<1>4. QED BY <1>1, <1>2, <1>3, PTL DEF AwSpec
=============================================================================
