-------------------------- MODULE ProviderAccounts --------------------------
(* A personal provider account and everybody who uses its private home: missions
   and interactive sessions that mount it into their worker's container, the
   native login process, connection checks and the removal of the account.

   An exclusive lease in the database keeps them apart.  A lease can outlive its
   holder (a crash) and a holder its lease (a late heartbeat), so every new
   holder first removes the containers that still mount the home, and an account
   whose cleanup failed is quarantined with a recovery code until a check clears
   it.  One account, one service process that may crash and start again.       *)
EXTENDS Naturals, FiniteSets

CONSTANTS Flows,       \* pairs of a worker and "mission" or "interactive"
          Clerks,      \* threads that serve the account's HTTP endpoints
          Preferred,   \* does the policy allow the deployment's own account instead?
          MaxTrouble   \* bound on crashes, errors and late heartbeats

VARIABLES account,     \* provider_accounts: status, recovery code, authentication method
          lease,       \* provider_account_leases, by holder
          home,        \* the private directory: does it exist, is it signed in?
          mounted,     \* workers whose container mounts the home
          session,     \* the registered login session and its finalizing thread
          child,       \* the login process
          route,       \* _active_bindings, by worker
          bind,        \* progress of each flow and of its heartbeat thread
          clerk,       \* progress of each clerk
          runs,        \* the run of each worker: state and how often it was given to a harness
          trouble,     \* faults so far
          late         \* did a lease end under a living holder?

acctVars == <<account, lease, home, mounted, session, child, route, bind, clerk, runs, trouble, late>>

Workers == {f[1] : f \in Flows}
Missions == {f \in Flows : f[2] = "mission"}
Session == <<"", "session">>
Nobody == <<"", "nobody">>
Holders == Flows \cup Clerks \cup {Session}

\* A flow is a worker and a purpose; neither a clerk nor the login session is one.
ASSUME AccountsAssumption ==
    /\ \A f, g \in Flows : f[1] = g[1] /\ f[2] = g[2] => f = g
    /\ Flows \cap Clerks = {} /\ Session \notin Flows \cup Clerks

NoRoute == [by |-> Nobody, ready |-> FALSE, closing |-> FALSE, readers |-> 0]
NoBind == [pc |-> "idle", beat |-> "off", released |-> FALSE]
NoSession == [open |-> FALSE, fin |-> Nobody]
NoRun == [st |-> "none", given |-> 0]

AccountsTypeOK ==
    /\ account.status \in {"disconnected", "connecting", "ready", "action_required",
                           "unavailable", "error", "forgotten"}
    /\ account.code \in {"", "credential_cleanup_failed"}
    /\ lease \in [Holders -> {"none", "live", "orphan", "expired"}]
    /\ mounted \subseteq Workers
    /\ child \in {"none", "running", "ok", "bad"}
    /\ trouble \in 0 .. MaxTrouble /\ late \in BOOLEAN

AccountsInit ==
    /\ account \in [status : {"disconnected", "ready"}, code : {""},
                    method : {"subscription", "api_key"}]
    /\ lease = [h \in Holders |-> "none"]
    /\ home = [there |-> account.status = "ready", signed |-> account.status = "ready"]
    /\ mounted = {} /\ session = NoSession /\ child = "none"
    /\ route = [w \in Workers |-> NoRoute]
    /\ bind = [f \in Flows |-> NoBind]
    /\ clerk = [c \in Clerks |-> [pc |-> "idle", auth |-> FALSE]]
    /\ runs = [w \in Workers |-> NoRun]
    /\ trouble = 0 /\ late = FALSE

Hit == trouble < MaxTrouble /\ trouble' = trouble + 1
Calm == UNCHANGED trouble
BindAt(f, pc) == bind[f].pc = pc
Go(f, pc) == bind' = [bind EXCEPT ![f].pc = pc]
ClerkAt(c, pc) == clerk[c].pc = pc
ClerkGo(c, pc) == clerk' = [clerk EXCEPT ![c].pc = pc]
Native == account.method = "subscription"

-----------------------------------------------------------------------------
\* The control-plane store

\* update_provider_account_status; a code of "same" leaves the recovery code alone.
SetStatus(st, code) ==
    account' = IF account.status = "forgotten" THEN account
               ELSE [account EXCEPT !.status = st, !.code = IF code = "same" THEN @ ELSE code]
Quarantine == SetStatus("action_required", "credential_cleanup_failed")

Held == \E h \in Holders : lease[h] \in {"live", "orphan"}

\* acquire_provider_lease
CanLease(statuses) == ~Held /\ account.status \in statuses
Take(h) == lease' = [lease EXCEPT ![h] = "live"]
Free(h) == lease' = [lease EXCEPT ![h] = "none"]

AnyStatus == {"disconnected", "connecting", "ready", "action_required", "unavailable", "error"}

\* The interactive lane is refused while a run of the worker or the account is queued or running.
WorkPending == \E w \in Workers : runs[w].st \in {"queued", "running"}

\* forget_provider_account
Forget(c) ==
    /\ ClerkAt(c, "idle") /\ account.status = "disconnected" /\ ~Held
    /\ account' = [account EXCEPT !.status = "forgotten"]
    /\ UNCHANGED <<lease, home, mounted, session, child, route, bind, clerk, runs, trouble, late>>

-----------------------------------------------------------------------------
\* Runs of the workers

\* create_run with the account's fence: another holder refuses it, unless the run may use the
\* deployment's account and the holder is no interactive session.
Fenced(w) ==
    \E h \in Holders \ {<<w, "mission">>} :
        /\ lease[h] \in {"live", "orphan"}
        /\ ~Preferred \/ (h \in Flows /\ h[2] = "interactive")
CreateRun(w) ==
    /\ <<w, "mission">> \in Missions /\ runs[w].st = "none" /\ runs[w].given = 0
    /\ ~Fenced(w)
    /\ runs' = [runs EXCEPT ![w].st = "queued"]
    /\ UNCHANGED <<account, lease, home, mounted, session, child, route, bind, clerk, trouble, late>>

\* The run is claimed and then executed (HostRuns).
ClaimRun(w) ==
    /\ runs[w].st = "queued"
    /\ runs' = [runs EXCEPT ![w].st = "claimed"]
    /\ UNCHANGED <<account, lease, home, mounted, session, child, route, bind, clerk, trouble, late>>
StartRun(w) ==
    /\ runs[w].st = "claimed"
    /\ runs' = [runs EXCEPT ![w].st = "running"]
    /\ UNCHANGED <<account, lease, home, mounted, session, child, route, bind, clerk, trouble, late>>

OverRun(f) == IF f \in Missions THEN [runs EXCEPT ![f[1]].st = "none"] ELSE runs
GivenRun(f) == [runs EXCEPT ![f[1]].given = @ + 1]

-----------------------------------------------------------------------------
\* Binding the home into a container

MayBegin(f) == BindAt(f, "idle") /\ (f \in Missions => runs[f[1]].st = "running" /\ runs[f[1]].given = 0)
                             /\ (f \notin Missions => Native)

\* The flow gives up; a mission that may use the deployment's account goes on without the home.
GiveUp(f) ==
    IF f \in Missions /\ Preferred THEN Go(f, "fallback") /\ UNCHANGED runs
    ELSE bind' = [bind EXCEPT ![f] = NoBind] /\ runs' = OverRun(f)

\* bind: the account is read and the worker's route reserved.
ReserveRoute(f) ==
    /\ MayBegin(f) /\ Native
    /\ IF account.status # "ready"
       THEN GiveUp(f) /\ UNCHANGED route
       ELSE IF route[f[1]] # NoRoute
       THEN bind' = [bind EXCEPT ![f] = NoBind] /\ runs' = OverRun(f) /\ UNCHANGED route
       ELSE /\ route' = [route EXCEPT ![f[1]] = [NoRoute EXCEPT !.by = f]]
            /\ Go(f, "acquire") /\ UNCHANGED runs
    /\ UNCHANGED <<account, lease, home, mounted, session, child, clerk, trouble, late>>

Acquire(f) ==
    /\ BindAt(f, "acquire")
    /\ IF CanLease({"ready"}) /\ account.code = "" /\ (f \in Missions \/ ~WorkPending)
       THEN Take(f) /\ Go(f, "reconcile") /\ UNCHANGED <<route, runs>>
       ELSE /\ route' = [route EXCEPT ![f[1]] = NoRoute]
            /\ GiveUp(f) /\ UNCHANGED lease
    /\ UNCHANGED <<account, home, mounted, session, child, clerk, trouble, late>>

\* Mutant: the lease is trusted, containers of earlier holders stay.
Unreconciled == mounted

\* terminate_containers_mounting_provider_account
NoMounts == {}

\* Stale mounts are removed and the home exists.
Prepare(f) ==
    /\ BindAt(f, "reconcile")
    /\ \/ /\ mounted' = NoMounts /\ home' = [home EXCEPT !.there = TRUE]
          /\ bind' = [bind EXCEPT ![f] = [pc |-> "bound", beat |-> "on", released |-> FALSE]]
          /\ UNCHANGED <<account, lease, route, runs>> /\ Calm
       \/ /\ Quarantine /\ Free(f)
          /\ route' = [route EXCEPT ![f[1]] = NoRoute]
          /\ bind' = [bind EXCEPT ![f] = NoBind] /\ runs' = OverRun(f)
          /\ UNCHANGED <<mounted, home>> /\ Hit
    /\ UNCHANGED <<session, child, clerk, late>>

\* ensure_worker_ready starts the container with the mount.
EnsureReady(f) ==
    /\ BindAt(f, "bound")
    /\ mounted' = mounted \cup {f[1]}
    /\ Go(f, "ready")
    /\ UNCHANGED <<account, lease, home, session, child, route, clerk, runs, trouble, late>>

Mine(f) == route[f[1]].by = f

\* mark_active_route_ready, and the task starts.
StartTask(f) ==
    /\ BindAt(f, "ready")
    /\ IF f \in Missions
       THEN IF Mine(f) /\ ~route[f[1]].closing
            THEN /\ route' = [route EXCEPT ![f[1]].ready = TRUE]
                 /\ runs' = GivenRun(f) /\ Go(f, "task")
            ELSE Go(f, "close") /\ UNCHANGED <<route, runs>>
       ELSE Go(f, "task") /\ UNCHANGED <<route, runs>>
    /\ UNCHANGED <<account, lease, home, mounted, session, child, clerk, trouble, late>>

\* The harness returns; an expired sign-in marks the account.
EndTask(f) ==
    /\ BindAt(f, "task")
    /\ \/ UNCHANGED account /\ Calm
       \/ f \in Missions /\ SetStatus("action_required", "same") /\ Hit
    /\ Go(f, "close")
    /\ UNCHANGED <<lease, home, mounted, session, child, route, clerk, runs, late>>

\* _begin_close_active_route
BeginClose(f) ==
    /\ BindAt(f, "close")
    /\ route' = IF Mine(f) THEN [route EXCEPT ![f[1]].closing = TRUE] ELSE route
    /\ Go(f, "release")
    /\ UNCHANGED <<account, lease, home, mounted, session, child, clerk, runs, trouble, late>>

Drained(f) == Mine(f) => route[f[1]].readers = 0

\* release_provider_account_binding removes the whole container.
Unmounted(f) == IF bind[f].released THEN mounted ELSE mounted \ {f[1]}

\* release_bound_credentials: once, with a repetition; the second failure quarantines.
ReleaseBinding(f) ==
    /\ BindAt(f, "release") /\ Drained(f)
    /\ \/ /\ mounted' = Unmounted(f)
          /\ bind' = [bind EXCEPT ![f].released = TRUE, ![f].pc = "unlease"]
          /\ UNCHANGED account /\ Calm
       \/ /\ ~bind[f].released /\ Quarantine
          /\ Go(f, "unlease") /\ UNCHANGED mounted /\ Hit
    /\ UNCHANGED <<lease, home, session, child, route, clerk, runs, late>>

\* The heartbeat is stopped, the lease released and the route removed.
Unlease(f) ==
    /\ BindAt(f, "unlease")
    /\ Free(f)
    /\ route' = IF Mine(f) THEN [route EXCEPT ![f[1]] = NoRoute] ELSE route
    /\ bind' = [bind EXCEPT ![f] = NoBind] /\ runs' = OverRun(f)
    /\ UNCHANGED <<account, home, mounted, session, child, clerk, trouble, late>>

\* The heartbeat thread finds the lease gone: the account is marked and the binding aborted.
LoseLease(f) ==
    /\ bind[f].beat = "on" /\ lease[f] # "live" /\ bind[f].pc # "unlease"
    /\ SetStatus("action_required", "same")
    /\ route' = IF Mine(f) THEN [route EXCEPT ![f[1]].closing = TRUE] ELSE route
    /\ bind' = [bind EXCEPT ![f].beat = "abort"]
    /\ UNCHANGED <<lease, home, mounted, session, child, clerk, runs, trouble, late>>
Abort(f) ==
    /\ bind[f].beat = "abort" /\ Drained(f)
    /\ mounted' = Unmounted(f)
    /\ route' = IF Mine(f) THEN [route EXCEPT ![f[1]] = NoRoute] ELSE route
    /\ bind' = [bind EXCEPT ![f].beat = "off", ![f].released = TRUE]
    /\ UNCHANGED <<account, lease, home, session, child, clerk, runs, trouble, late>>

\* project_active_route: a desktop action borrows the mission's route.
Borrow(f) ==
    /\ f \in Missions /\ route[f[1]].by = f /\ route[f[1]].readers = 0
    /\ route[f[1]].ready /\ ~route[f[1]].closing
    /\ Native => lease[f] = "live" \/ ~BindAt(f, "task")
    /\ route' = [route EXCEPT ![f[1]].readers = 1]
    /\ UNCHANGED <<account, lease, home, mounted, session, child, bind, clerk, runs, trouble, late>>
GiveBack(f) ==
    /\ route[f[1]].by = f /\ route[f[1]].readers = 1
    /\ route' = [route EXCEPT ![f[1]].readers = 0]
    /\ UNCHANGED <<account, lease, home, mounted, session, child, bind, clerk, runs, trouble, late>>

-----------------------------------------------------------------------------
\* Missions without the home

\* _run_unbound_selected_account_route with the deployment's account
Fallback(f) ==
    /\ BindAt(f, "fallback")
    /\ IF route[f[1]] # NoRoute
       THEN bind' = [bind EXCEPT ![f] = NoBind] /\ runs' = OverRun(f) /\ UNCHANGED route
       ELSE /\ route' = [route EXCEPT ![f[1]] = [NoRoute EXCEPT !.by = f, !.ready = TRUE]]
            /\ runs' = GivenRun(f) /\ Go(f, "unbound")
    /\ UNCHANGED <<account, lease, home, mounted, session, child, clerk, trouble, late>>

\* _run_with_inference_broker: the route of an account that is only a reference.
Brokered(f) ==
    /\ MayBegin(f) /\ f \in Missions /\ ~Native
    /\ IF account.status \notin {"ready", "action_required", "unavailable", "error"}
       THEN GiveUp(f) /\ UNCHANGED route
       ELSE /\ route' = [route EXCEPT ![f[1]] = [NoRoute EXCEPT !.by = f]]
            /\ Go(f, "issue") /\ UNCHANGED runs
    /\ UNCHANGED <<account, lease, home, mounted, session, child, clerk, trouble, late>>

\* A grant is issued and the mission dispatched, or the broker refuses.
Issue(f) ==
    /\ BindAt(f, "issue")
    /\ \/ /\ IF account.status # "ready" THEN SetStatus("ready", "same") ELSE UNCHANGED account
          /\ route' = [route EXCEPT ![f[1]].ready = TRUE]
          /\ runs' = GivenRun(f) /\ Go(f, "brokered") /\ Calm
       \/ /\ \E st \in {"unavailable", "action_required"} : SetStatus(st, "same")
          /\ IF Preferred
             THEN /\ route' = [route EXCEPT ![f[1]].ready = TRUE]
                  /\ runs' = GivenRun(f) /\ Go(f, "unbound")
             ELSE Go(f, "unbound") /\ UNCHANGED <<route, runs>>
          /\ Hit
    /\ UNCHANGED <<lease, home, mounted, session, child, clerk, late>>

\* Mutant: any broker error falls back to the deployment's account.
MayFallBackAlways(f) == Preferred

\* A grant that cannot be revoked after the mission was dispatched does not run it again.
MayFallBack(f) == Preferred /\ runs[f[1]].given = 0

EndBrokered(f) ==
    /\ BindAt(f, "brokered")
    /\ \/ UNCHANGED <<account, runs>> /\ Calm
       \/ /\ \E st \in {"unavailable", "action_required"} : SetStatus(st, "same")
          /\ runs' = IF MayFallBack(f) THEN GivenRun(f) ELSE runs
          /\ Hit
    /\ Go(f, "unbound")
    /\ UNCHANGED <<lease, home, mounted, session, child, route, clerk, late>>

\* bind_unbound_route is left: the close waits for its readers.
CloseUnbound(f) ==
    /\ BindAt(f, "unbound")
    /\ IF route[f[1]].closing
       THEN /\ Drained(f)
            /\ route' = [route EXCEPT ![f[1]] = NoRoute]
            /\ bind' = [bind EXCEPT ![f] = NoBind] /\ runs' = OverRun(f)
       ELSE route' = [route EXCEPT ![f[1]].closing = TRUE] /\ UNCHANGED <<bind, runs>>
    /\ UNCHANGED <<account, lease, home, mounted, session, child, clerk, trouble, late>>

-----------------------------------------------------------------------------
\* Login, connection check and removal

\* ProviderSetupManager.start, under the manager's lock; a login process that survived a crash
\* keeps its file lock and refuses another one.
StartLogin(c) ==
    /\ ClerkAt(c, "idle") /\ Native /\ ~(session.open /\ child = "running")
    /\ CanLease(AnyStatus)
    /\ \/ /\ child # "running"
          /\ Take(Session) /\ session' = [open |-> TRUE, fin |-> Nobody]
          /\ child' = "running" /\ mounted' = NoMounts /\ home' = [home EXCEPT !.there = TRUE]
          /\ ClerkGo(c, "connecting") /\ UNCHANGED account /\ Calm
       \/ /\ \/ child = "running" /\ mounted' = NoMounts /\ home' = [home EXCEPT !.there = TRUE] /\ Calm
             \/ UNCHANGED <<mounted, home>> /\ Hit
          /\ Quarantine /\ UNCHANGED <<lease, session, child, clerk>>
    /\ UNCHANGED <<route, bind, runs, late>>

\* The status is written after the lock is given back.
Connecting(c) ==
    /\ ClerkAt(c, "connecting")
    /\ SetStatus("connecting", "same")
    /\ ClerkGo(c, "idle")
    /\ UNCHANGED <<lease, home, mounted, session, child, route, bind, runs, trouble, late>>

ChildEnds ==
    /\ child = "running"
    /\ \/ child' = "ok" /\ home' = [home EXCEPT !.signed = home.there]
       \/ child' = "bad" /\ UNCHANGED home
    /\ UNCHANGED <<account, lease, mounted, session, route, bind, clerk, runs, trouble, late>>

Killed == IF child = "running" THEN "bad" ELSE child

\* The session's heartbeat finds its lease gone.
LoseLogin ==
    /\ session.open /\ child = "running" /\ lease[Session] # "live"
    /\ child' = "bad"
    /\ SetStatus("action_required", "same")
    /\ UNCHANGED <<lease, home, mounted, session, route, bind, clerk, runs, trouble, late>>

\* cancel, a failed input and shutdown: the session is taken out under the lock and then released.
CloseSession(c) ==
    /\ ClerkAt(c, "idle") /\ session.open
    /\ child' = Killed /\ session' = NoSession
    /\ ClerkGo(c, "cancelled")
    /\ UNCHANGED <<account, lease, home, mounted, route, bind, runs, trouble, late>>
Cancelled(c) ==
    /\ ClerkAt(c, "cancelled")
    /\ Free(Session) /\ SetStatus("action_required", "same")
    /\ ClerkGo(c, "idle")
    /\ UNCHANGED <<home, mounted, session, child, route, bind, runs, trouble, late>>

\* status: one thread finalizes a login that ended; without a session a verification lease is taken.
BeginCheck(c) ==
    /\ ClerkAt(c, "idle") /\ Native
    /\ \/ session.open /\ child # "running" /\ session.fin = Nobody
          /\ session' = [session EXCEPT !.fin = c] /\ UNCHANGED lease
       \/ ~session.open /\ CanLease(AnyStatus) /\ Take(c) /\ UNCHANGED session
    /\ ClerkGo(c, "seal")
    /\ UNCHANGED <<account, home, mounted, child, route, bind, runs, trouble, late>>

Finalizing(c) == lease[c] = "none"
LeaseLost(c) == lease[c] = "expired"

\* Stale mounts go, the home exists, and the provider's own command reports the sign-in.
Check(c) ==
    /\ ClerkAt(c, "seal")
    /\ \/ /\ mounted' = NoMounts /\ home' = [home EXCEPT !.there = TRUE]
          /\ clerk' = [clerk EXCEPT ![c] = [pc |-> "write", auth |-> home.signed]] /\ Calm
       \/ ClerkGo(c, "unsafe") /\ UNCHANGED <<mounted, home>> /\ Hit
    /\ UNCHANGED <<account, lease, session, child, route, bind, runs, late>>

\* The verdict is written; a check under its own lease renews it first.
Verdict(c) ==
    /\ ClerkAt(c, "write")
    /\ IF LeaseLost(c) THEN ClerkGo(c, "unsafe") /\ UNCHANGED account
       ELSE /\ IF clerk[c].auth THEN SetStatus("ready", "")
               ELSE SetStatus(IF Finalizing(c) /\ child = "bad" THEN "error" ELSE "action_required", "same")
            /\ ClerkGo(c, "checked")
    /\ UNCHANGED <<lease, home, mounted, session, child, route, bind, runs, trouble, late>>
Unsafe(c) ==
    /\ ClerkAt(c, "unsafe")
    /\ Quarantine /\ ClerkGo(c, "checked")
    /\ UNCHANGED <<lease, home, mounted, session, child, route, bind, runs, trouble, late>>
EndCheck(c) ==
    /\ ClerkAt(c, "checked")
    /\ IF Finalizing(c)
       THEN IF session.fin = c THEN session' = NoSession /\ Free(Session)
            ELSE UNCHANGED <<session, lease>>
       ELSE Free(c) /\ UNCHANGED session
    /\ ClerkGo(c, "idle")
    /\ UNCHANGED <<account, home, mounted, child, route, bind, runs, trouble, late>>

\* disconnect: a login is ended first, then the removal takes its own lease.
Disconnect(c) ==
    /\ ClerkAt(c, "idle") /\ account.status # "forgotten"
    /\ child' = IF session.open THEN Killed ELSE child
    /\ session' = NoSession
    /\ LET rest == IF session.open THEN [lease EXCEPT ![Session] = "none"] ELSE lease IN
       IF \E h \in Holders : rest[h] \in {"live", "orphan"}
       THEN lease' = rest /\ UNCHANGED <<account, clerk>>
       ELSE /\ lease' = [rest EXCEPT ![c] = "live"]
            /\ SetStatus("action_required", "same") /\ ClerkGo(c, "logout")
    /\ UNCHANGED <<home, mounted, route, bind, runs, trouble, late>>
Logout(c) ==
    /\ ClerkAt(c, "logout")
    /\ mounted' = NoMounts /\ home' = [home EXCEPT !.signed = FALSE]
    /\ ClerkGo(c, "remove")
    /\ UNCHANGED <<account, lease, session, child, route, bind, runs, trouble, late>>
RemoveHome(c) ==
    /\ ClerkAt(c, "remove")
    /\ home' = [there |-> FALSE, signed |-> FALSE]
    /\ ClerkGo(c, "disconnect")
    /\ UNCHANGED <<account, lease, mounted, session, child, route, bind, runs, trouble, late>>

\* disconnect_provider_account releases every lease of the account.
Disconnected(c) ==
    /\ ClerkAt(c, "disconnect")
    /\ lease' = [h \in Holders |-> "none"]
    /\ SetStatus("disconnected", "")
    /\ ClerkGo(c, "idle")
    /\ UNCHANGED <<home, mounted, session, child, route, bind, runs, trouble, late>>
DisconnectFails(c) ==
    /\ clerk[c].pc \in {"logout", "remove"} /\ Hit
    /\ Quarantine /\ Free(c) /\ ClerkGo(c, "idle")
    /\ UNCHANGED <<home, mounted, session, child, route, bind, runs, late>>

-----------------------------------------------------------------------------
\* Crash, restart and time

\* The service dies; login process and containers stay.  The next start removes the containers of
\* interactive sessions (recover_interactive_provider_sessions).
Restart ==
    /\ Hit
    /\ LET stale == {f \in Flows \ Missions : lease[f] # "none"} IN
       /\ mounted' = mounted \ {f[1] : f \in stale}
       /\ lease' = [h \in Holders |-> IF h \in stale \/ lease[h] = "none" THEN "none"
                                      ELSE IF lease[h] = "live" THEN "orphan" ELSE lease[h]]
    /\ session' = NoSession
    /\ route' = [w \in Workers |-> NoRoute]
    /\ bind' = [f \in Flows |-> NoBind]
    /\ clerk' = [c \in Clerks |-> [pc |-> "idle", auth |-> FALSE]]
    /\ runs' = [w \in Workers |-> [runs[w] EXCEPT !.st = IF @ = "queued" THEN @ ELSE "none"]]
    /\ UNCHANGED <<account, home, child, late>>

\* A lease nobody renews ends; one whose holder lives ends only when the heartbeat is late.
Expire(h) ==
    /\ \/ lease[h] = "orphan" /\ UNCHANGED <<trouble, late>>
       \/ lease[h] = "live" /\ Hit /\ late' = TRUE
    /\ lease' = [lease EXCEPT ![h] = "expired"]
    /\ UNCHANGED <<account, home, mounted, session, child, route, bind, clerk, runs>>

Bind(f) ==
    \/ ReserveRoute(f) \/ Acquire(f) \/ Prepare(f) \/ EnsureReady(f) \/ StartTask(f) \/ EndTask(f)
    \/ BeginClose(f) \/ ReleaseBinding(f) \/ Unlease(f) \/ LoseLease(f) \/ Abort(f)
    \/ Borrow(f) \/ GiveBack(f)
    \/ Fallback(f) \/ Brokered(f) \/ Issue(f) \/ EndBrokered(f) \/ CloseUnbound(f)
Serve(c) ==
    \/ Forget(c) \/ StartLogin(c) \/ Connecting(c) \/ CloseSession(c) \/ Cancelled(c)
    \/ BeginCheck(c) \/ Check(c) \/ Verdict(c) \/ Unsafe(c) \/ EndCheck(c)
    \/ Disconnect(c) \/ Logout(c) \/ RemoveHome(c) \/ Disconnected(c) \/ DisconnectFails(c)

AccountsNext ==
    \/ \E w \in Workers : CreateRun(w) \/ ClaimRun(w) \/ StartRun(w)
    \/ \E f \in Flows : Bind(f)
    \/ \E c \in Clerks : Serve(c)
    \/ ChildEnds \/ LoseLogin \/ Restart
    \/ \E h \in Holders : Expire(h)

AccountsSpec == AccountsInit /\ [][AccountsNext]_acctVars

-----------------------------------------------------------------------------
\* Properties

\* While heartbeats are in time, the credentials are never mounted into two containers, across
\* crashes that leave containers behind, cleanups that fail and removals of the account.  With a
\* late heartbeat two mounts are possible: the abort finishes before the container is started.
OneMount == late \/ Cardinality(mounted) <= 1

\* The home is removed only when no container mounts it and no mission runs on it.
RemovedUnmounted ==
    [][home.there /\ ~home'.there => late \/ (mounted = {} /\ \A f \in Flows : ~BindAt(f, "task"))]_acctVars

\* A mission is given to a harness at most once, whatever the brokers answer and whenever leases
\* and routes are lost.
MissionOnce == \A w \in Workers : runs[w].given <= 1

\* Both: while no lease ended under a living holder, one container at most mounts the account's
\* home, and a mission is given to a harness at most once, though it may fall back between accounts.
AccountUsedOnce == OneMount /\ MissionOnce

\* A quarantine is lifted only when no container mounts the home.  Does not hold: a check whose
\* session was cancelled under it writes its verdict over a newer quarantine.
ClearedIsClean ==
    [][account.code # "" /\ account'.code = "" => late \/ mounted = {}]_acctVars

\* An account that is ready has a signed-in home.  Does not hold: a finalizing check goes on
\* after its session was cancelled, and writes over a removal.
ReadyIsSigned == Native /\ account.status = "ready" => home.there /\ home.signed
=============================================================================
