------------------------------- MODULE Intake -------------------------------
(* How work enters the service: a delegation, which reserves a project, a worker and its first
   run in one transaction under the key of the request, and the request for a worker by its
   alias, which reuses a worker or creates one.  Callers may lose the answer and ask again; the
   process may die between the transaction and the callback and wake-up that follow it, and the
   scheduler finds the queued run later.

   The digest of a request is a value; one owner and one project; the capacity of the host is a
   number of slots.  A worker, its run and its lease have one id.                             *)
EXTENDS Naturals, FiniteSets

CONSTANTS Callers,   \* clients, each with one request
          Requests,  \* what they may ask: [op, key, dig, origin, mode, auth]
          Limit,     \* the quota of workspaces
          Slots,     \* leases that fit on the host
          MaxIds,    \* bound on workers
          MaxFaults  \* bound on lost answers and crashes

ASSUME IntakeAssumption == MaxIds \in Nat /\ Limit \in Nat

VARIABLES req,       \* each caller's request
          call,      \* its place, the alias worker it found and what it was answered
          lock,      \* the call inside _worker_create_lock, if any
          space,     \* each worker: none, open or closed, and its mode, alias and route
          first,     \* its first run: none, queued, active, ended
          delegs,    \* delegation rows
          leases,    \* leases reserved at acceptance
          announced, \* runs whose queue callback is in the outbox
          woken,     \* workers whose processor was started
          faults

intakeVars == <<req, call, lock, space, first, delegs, leases, announced, woken, faults>>

Ids == 1 .. MaxIds
NoId == 0
Nobody == {}
NoWorker == [st |-> "none", mode |-> "", alias |-> FALSE, route |-> ""]
Delegation(c) == req[c].op = "delegate"

IntakeInit ==
    /\ req \in [Callers -> Requests]
    /\ call = [c \in Callers |-> [pc |-> "idle", found |-> NoId, answer |-> NoId]]
    /\ lock = Nobody
    /\ space = [i \in Ids |-> NoWorker] /\ first = [i \in Ids |-> "none"]
    /\ delegs = {} /\ leases = {} /\ announced = {} /\ woken = {} /\ faults = 0

At(c, pc) == call[c].pc = pc
Go(c, pc) == call' = [call EXCEPT ![c].pc = pc]
Answer(c, i) == call' = [call EXCEPT ![c].pc = "done", ![c].answer = i]
Refuse(c) == Go(c, "done")
Fresh == CHOOSE i \in Ids : space[i] = NoWorker /\ \A j \in 1 .. (i - 1) : space[j] # NoWorker
Room == \E i \in Ids : space[i] = NoWorker
Fault == faults < MaxFaults /\ faults' = faults + 1

-----------------------------------------------------------------------------
\* A delegation

OfKey(c) == {d \in delegs : d.key = req[c].key}

\* reserve_delegation looks the key up before anything else.
Lookup(c) ==
    /\ At(c, "idle") /\ Delegation(c)
    /\ \/ OfKey(c) = {} /\ Go(c, "preflight")
       \/ \E d \in OfKey(c) : IF d.dig = req[c].dig THEN Answer(c, d.id) ELSE Refuse(c)
    /\ UNCHANGED <<req, lock, space, first, delegs, leases, announced, woken, faults>>

\* Launch authority, profile and runtime preflight; a host at its limit is no reason to refuse.
Preflight(c) ==
    /\ At(c, "preflight")
    /\ Go(c, "waiting") \/ Refuse(c)
    /\ UNCHANGED <<req, lock, space, first, delegs, leases, announced, woken, faults>>

\* Mutant of Enter: nobody waits for the lock.
EnterAnyway(c) ==
    /\ At(c, "waiting")
    /\ lock' = lock /\ Go(c, "counting")
    /\ UNCHANGED <<req, space, first, delegs, leases, announced, woken, faults>>

Enter(c) ==
    /\ At(c, "waiting") /\ lock = Nobody
    /\ lock' = {c} /\ Go(c, "counting")
    /\ UNCHANGED <<req, space, first, delegs, leases, announced, woken, faults>>

Leave == lock' = Nobody

\* _enforce_worker_limits: workspaces that are not terminated
Workspaces == Cardinality({i \in Ids : space[i].st = "open"})

CountWorkers(c) ==
    /\ At(c, "counting")
    /\ IF Workspaces < Limit THEN Go(c, "counted") /\ UNCHANGED lock
       ELSE Refuse(c) /\ Leave
    /\ UNCHANGED <<req, space, first, delegs, leases, announced, woken, faults>>

\* Runs of host missions, and leases of their workers
HostMissions ==
    {i \in Ids : space[i].mode = "host" /\ (first[i] \in {"queued", "active"} \/ i \in leases)}

Isolated(c) == req[c].auth /\ req[c].mode = "docker"

OriginFree(c) == \A d \in delegs : d.origin # req[c].origin

\* Mutant of Unbound: the key was looked up before.
UnboundByLookup(c) == OriginFree(c)

\* What the transaction checks before it inserts
Unbound(c) == OfKey(c) = {} /\ OriginFree(c)

NewWorker(c, alias) == [st |-> "open", mode |-> req[c].mode, alias |-> alias, route |-> "primary"]
NewDelegation(c, i) ==
    [key |-> req[c].key, dig |-> req[c].dig, origin |-> req[c].origin, id |-> i]

\* The lease of the run is reserved with it if it fits; otherwise the run waits for capacity.
Preaccepted(i) == IF Cardinality(leases) < Slots THEN leases \cup {i} ELSE leases

Queued(i) == [first EXCEPT ![i] = "queued"]

\* The same request is answered again, another one under the key or the origin is refused.
AnswerAgain(c) ==
    \/ \E d \in OfKey(c) : d.dig = req[c].dig /\ Answer(c, d.id)
    \/ (\A d \in OfKey(c) : d.dig # req[c].dig) /\ Refuse(c)

Reserve(c) ==
    /\ At(c, "counted") /\ Delegation(c) /\ Room /\ Leave
    /\ IF Isolated(c) /\ HostMissions # {}
       THEN Refuse(c) /\ UNCHANGED <<space, first, delegs, leases>>
       ELSE IF ~Unbound(c)
       THEN /\ AnswerAgain(c)
            /\ UNCHANGED <<space, first, delegs, leases>>
       ELSE LET i == Fresh
            IN  /\ space' = [space EXCEPT ![i] = NewWorker(c, FALSE)]
                /\ first' = Queued(i)
                /\ delegs' = delegs \cup {NewDelegation(c, i)}
                /\ leases' = Preaccepted(i)
                /\ call' = [call EXCEPT ![c].pc = "reserved", ![c].found = i]
    /\ UNCHANGED <<req, announced, woken, faults>>

\* The callback "queued" has an id of its own and is inserted once.
AnnounceQueued(c) ==
    /\ At(c, "reserved")
    /\ announced' = announced \cup {call[c].found}
    /\ Go(c, "announced")
    /\ UNCHANGED <<req, lock, space, first, delegs, leases, woken, faults>>

Wake(c) ==
    /\ At(c, "announced")
    /\ woken' = woken \cup {call[c].found}
    /\ Answer(c, call[c].found)
    /\ UNCHANGED <<req, lock, space, first, delegs, leases, announced, faults>>

-----------------------------------------------------------------------------
\* A worker by its alias

OfAlias == {i \in Ids : space[i].alias}
NewestAlias == CHOOSE i \in OfAlias : \A j \in OfAlias : j <= i
Quiet(i) == first[i] \in {"none", "ended"}

FindAlias(c) ==
    /\ At(c, "idle") /\ ~Delegation(c)
    /\ IF OfAlias # {} /\ space[NewestAlias].st # "closed"
       THEN call' = [call EXCEPT ![c].pc = "found", ![c].found = NewestAlias]
       ELSE Go(c, "preflight")
    /\ UNCHANGED <<req, lock, space, first, delegs, leases, announced, woken, faults>>

\* A scheduled worker that fell back returns to its route only between runs.
ReturnToRoute(c) ==
    /\ At(c, "found")
    /\ LET i == call[c].found
       IN  IF space[i].route = "primary" THEN Go(c, "matched") /\ UNCHANGED space
           ELSE IF Quiet(i)
           THEN Go(c, "matched") /\ space' = [space EXCEPT ![i].route = "primary"]
           ELSE Refuse(c) /\ UNCHANGED space
    /\ UNCHANGED <<req, lock, first, delegs, leases, announced, woken, faults>>

\* After the preflight the worker is read again under its start lock.
ReuseAlias(c) ==
    /\ At(c, "matched")
    /\ LET i == call[c].found
       IN  \/ space[i].st = "open" /\ Answer(c, i)
              /\ space' = [space EXCEPT ![i].route = "primary"]
           \/ space[i].st = "closed" /\ Go(c, "waiting") /\ UNCHANGED space
           \/ Refuse(c) /\ UNCHANGED space
    /\ UNCHANGED <<req, lock, first, delegs, leases, announced, woken, faults>>

CreateAlias(c) ==
    /\ At(c, "counted") /\ ~Delegation(c) /\ Room /\ Leave
    /\ space' = [space EXCEPT ![Fresh] = NewWorker(c, TRUE)]
    /\ Answer(c, Fresh)
    /\ UNCHANGED <<req, first, delegs, leases, announced, woken, faults>>

-----------------------------------------------------------------------------
\* The rest of the service

\* list_due_retry_worker_ids and process_due_worker_retries_once
Due(i) == first[i] = "queued" /\ space[i].st = "open"

Drain ==
    /\ {i \in Ids : Due(i)} \ woken # {}
    /\ woken' = woken \cup {i \in Ids : Due(i)}
    /\ UNCHANGED <<req, call, lock, space, first, delegs, leases, announced, faults>>

RunMoves(i) ==
    /\ i \in woken
    /\ \/ first[i] = "queued" /\ (i \in leases \/ Cardinality(leases) < Slots)
          /\ first' = [first EXCEPT ![i] = "active"] /\ leases' = leases \cup {i} /\ UNCHANGED woken
       \/ first[i] = "active"
          /\ first' = [first EXCEPT ![i] = "ended"] /\ leases' = leases \ {i} /\ woken' = woken \ {i}
    /\ UNCHANGED <<req, call, lock, space, delegs, announced, faults>>

\* A run on an alias worker, and the switch of its worker to the fallback route
AssignAlias(i) ==
    /\ space[i].alias /\ space[i].st = "open" /\ first[i] = "none"
    /\ first' = [first EXCEPT ![i] = "queued"]
    /\ space' \in {space, [space EXCEPT ![i].route = "fallback"]}
    /\ UNCHANGED <<req, call, lock, delegs, leases, announced, woken, faults>>

CloseWorker(i) ==
    /\ space[i].st = "open" /\ space' = [space EXCEPT ![i].st = "closed"]
    /\ first' = [first EXCEPT ![i] = IF @ = "none" THEN @ ELSE "ended"]
    /\ leases' = leases \ {i} /\ woken' = woken \ {i}
    /\ UNCHANGED <<req, call, lock, delegs, announced, faults>>

\* The caller never saw the answer, and asks again.
Retry(c) ==
    /\ At(c, "done") /\ Fault
    /\ Go(c, "idle")
    /\ UNCHANGED <<req, lock, space, first, delegs, leases, announced, woken>>

\* All calls end where they are and their callers ask again; no processor survives.
ServiceDies ==
    /\ Fault
    /\ call' = [c \in Callers |-> IF At(c, "done") THEN call[c] ELSE [call[c] EXCEPT !.pc = "idle"]]
    /\ lock' = Nobody /\ woken' = {}
    /\ UNCHANGED <<req, space, first, delegs, leases, announced>>

IntakeNext ==
    \/ \E c \in Callers :
         \/ Lookup(c) \/ Preflight(c) \/ Enter(c) \/ CountWorkers(c) \/ Reserve(c) \/ AnnounceQueued(c)
         \/ Wake(c) \/ FindAlias(c) \/ ReturnToRoute(c) \/ ReuseAlias(c) \/ CreateAlias(c) \/ Retry(c)
    \/ \E i \in Ids : RunMoves(i) \/ AssignAlias(i) \/ CloseWorker(i)
    \/ Drain \/ ServiceDies

IntakeSpec == IntakeInit /\ [][IntakeNext]_intakeVars

-----------------------------------------------------------------------------
\* Properties

(* A key stands for one piece of work: whichever calls with it race, lose their answer or die
   after the transaction, they make one delegation, and every caller that is answered is
   answered with that one. *)
OneWork ==
    /\ \A d, e \in delegs : d.key = e.key \/ d.origin = e.origin => d = e
    /\ \A c \in Callers : Delegation(c) /\ call[c].answer # NoId
         => \E d \in delegs : d.id = call[c].answer /\ d.key = req[c].key /\ d.dig = req[c].dig

(* The quota of workspaces holds although it is counted before the row is inserted, by two
   different operations. *)
QuotaKept == Workspaces <= Limit

\* One key or origin stands for one delegation, and the quota of workspaces holds (delegate,
\* find_or_resume).
AdmittedOnce == OneWork /\ QuotaKept
=============================================================================
