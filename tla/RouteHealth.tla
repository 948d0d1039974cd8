----------------------------- MODULE RouteHealth -----------------------------
(* The circuits of provider routes.  A run that ends with structured evidence of an exhausted
   quota or a rate limit opens the circuit of its route for everybody of its owner until the
   reset time that the provider named; a claimed run looks at the circuit of its route before
   it is invoked, and is switched to the configured fallback, put back until the reset, or
   failed so that its conversation falls back.  A run whose provider stalled asks for input and
   keeps its route for good.

   The evidence of an attempt is seen by its processor and by whoever collects the same attempt
   after a restart or on a read; each takes the time first and writes later.  Health rows and
   runs are those of one owner; a route stands for profile, runtime and model, and a run for its
   worker, which it does not share.                                                            *)
EXTENDS Naturals, FiniteSets, FiniteSetsExt

CONSTANTS Missions,      \* runs, each on a worker of its own
          Conversations, \* those in the conversation lane
          Handlers,      \* threads: processors and collectors
          Cooldowns,     \* lengths of the resets that a provider may name
          MaxAttempts,   \* bound on attempts
          MaxFailures,   \* bound on the failures that threads find
          LastTime       \* bound on the clock

\* A reset that a provider names lies in the future, in whole units of the clock.
ASSUME CooldownsAssumption == Cooldowns \subseteq Nat

VARIABLES now,      \* the clock
          stamp,    \* times of failures taken so far: they are all different
          health,   \* the open circuit of each route
          counted,  \* attempts whose evidence was counted
          mission,  \* runs, with their current attempt
          thread,   \* threads: place, run, attempt, the reset and the stamp read or taken
          rest      \* the latest reset that was ever entered for each route

routeVars == <<now, stamp, health, counted, mission, thread, rest>>

Routes == {"primary", "fallback"}
Closed == [open |-> FALSE]
NoMission == [pc |-> "idle"]
Outcomes == {"ok", "quota", "rate", "other"}
Larger(a, b) == IF a >= b THEN a ELSE b
Live == {"claimed", "running"}

RouteInit ==
    /\ now = 0 /\ stamp = 0
    /\ health = [x \in Routes |-> Closed] /\ counted = {}
    /\ mission = [r \in Missions |-> [st |-> "queued", route |-> "primary", att |-> 0, after |-> 0,
                              locked |-> FALSE, out |-> "", obs |-> 0,
                              sel |-> 0, rest |-> 0]]
    /\ thread = [p \in Handlers |-> NoMission] /\ rest = [x \in Routes |-> 0]

At(p, pc) == thread[p].pc = pc
Go(p, pc) == thread' = [thread EXCEPT ![p].pc = pc]
Leave(p) == thread' = [thread EXCEPT ![p] = NoMission]
Mine(p) == mission[thread[p].run]

\* The run is still in the attempt that the thread works for.
Exact(p) == Mine(p).att = thread[p].att

\* get_provider_route_health deletes every circuit whose time is over.
StillOpen ==
    [x \in Routes |-> IF health[x].open /\ health[x].until <= now THEN Closed ELSE health[x]]

\* The current attempt of the run has ended.
Ended(r, st) == [mission EXCEPT ![r].st = st, ![r].out = "", ![r].obs = 0,
                            ![r].sel = 0, ![r].rest = 0]

Queued(r, after) == [Ended(r, "queued") EXCEPT ![r].after = IF after > now THEN after ELSE 0]

Attempts == MapThenSumSet(LAMBDA r : mission[r].att, Missions)


-----------------------------------------------------------------------------
\* Before the runtime is invoked

Claim(p, r) ==
    /\ At(p, "idle") /\ mission[r].st = "queued" /\ mission[r].after <= now
    /\ Attempts < MaxAttempts
    /\ mission' = [mission EXCEPT ![r].st = "claimed", ![r].att = @ + 1, ![r].after = 0]
    /\ thread' = [thread EXCEPT ![p] = [pc |-> "select", run |-> r, att |-> mission[r].att + 1,
                                        locked |-> mission[r].locked, until |-> 0, t |-> 0,
                                        quota |-> FALSE]]
    /\ UNCHANGED <<now, stamp, health, counted, rest>>

\* record_run_attempt_provider_health_observation: the first of the attempt, before it starts
Observed(p, x) ==
    IF Exact(p) /\ Mine(p).st = "claimed" /\ Mine(p).obs = 0
    THEN [mission EXCEPT ![thread[p].run].obs = IF health'[x].open THEN health'[x].gen ELSE 0,
                     ![thread[p].run].sel = now, ![thread[p].run].rest = rest[x]]
    ELSE mission

Select(p) ==
    /\ At(p, "select")
    /\ health' = StillOpen
    /\ LET x == Mine(p).route
       IN  /\ mission' = Observed(p, x)
           /\ thread' = [thread EXCEPT
                ![p].pc = IF ~health'[x].open THEN "invoke"
                          ELSE IF thread[p].run \in Conversations /\ ~thread[p].locked
                          THEN "skip" ELSE "look",
                ![p].until = IF health'[x].open THEN health'[x].until ELSE 0]
    /\ UNCHANGED <<now, stamp, counted, rest>>

\* A conversation's run fails at once; its request falls back or tries again.
Skip(p) ==
    /\ At(p, "skip")
    /\ mission' = IF Exact(p) /\ Mine(p).st = "claimed"
              THEN Ended(thread[p].run, "failed") ELSE mission
    /\ Leave(p)
    /\ UNCHANGED <<now, stamp, health, counted, rest>>

\* _trusted_parallel_fallback_profile: another profile than the worker's own, authorized and
\* past its preflight; ready says whether it is
Fallback(p, ready) == ready /\ Mine(p).route = "primary" /\ ~thread[p].locked

\* The fallback is taken only if its own circuit is closed.
Look(p, ready) ==
    /\ At(p, "look")
    /\ health' = StillOpen
    /\ Go(p, IF Fallback(p, ready) /\ ~health'["fallback"].open THEN "switch" ELSE "wait")
    /\ UNCHANGED <<now, stamp, counted, mission, rest>>

\* Mutant of Switchable: the run's lock is the one that was read with the claim.
SwitchableAsRead(r) == mission[r].st \in Live /\ mission[r].route = "primary"

\* What switch_worker_profile_and_requeue_run checks in its transaction: not the attempt
Switchable(r) == mission[r].st \in Live /\ mission[r].route = "primary" /\ ~mission[r].locked

Switched(r) == [Queued(r, now) EXCEPT ![r].route = "fallback"]

Switch(p) ==
    /\ At(p, "switch")
    /\ IF Switchable(thread[p].run) THEN mission' = Switched(thread[p].run) /\ Leave(p)
       ELSE UNCHANGED mission /\ Go(p, "wait")
    /\ UNCHANGED <<now, stamp, health, counted, rest>>

\* _wait_for_exact_provider_route: back to the queue until the reset, no retry consumed
Wait(p) ==
    /\ At(p, "wait")
    /\ mission' = IF Exact(p) /\ Mine(p).st \in Live
                  THEN Queued(thread[p].run, thread[p].until) ELSE mission
    /\ Leave(p)
    /\ UNCHANGED <<now, stamp, health, counted, rest>>

Invoke(p) ==
    /\ At(p, "invoke")
    /\ IF Exact(p) /\ Mine(p).st = "claimed"
       THEN mission' = [mission EXCEPT ![thread[p].run].st = "running"]
            /\ Go(p, "wait_exit")
       ELSE UNCHANGED mission /\ Leave(p)
    /\ UNCHANGED <<now, stamp, health, counted, rest>>

-----------------------------------------------------------------------------
\* While it runs

ProcessExits(r, out) ==
    /\ mission[r].st = "running" /\ mission[r].out = ""
    /\ mission' = [mission EXCEPT ![r].out = out]
    /\ UNCHANGED <<now, stamp, health, counted, thread, rest>>

\* The run asks for input and keeps its route.
Attention(r) == [Ended(r, "needs_input") EXCEPT ![r].locked = TRUE]

\* observe_provider_liveness, when the retries without progress reach their limit; what it
\* counts before that is seen by nobody else
ObserveLiveness(r) ==
    /\ mission[r].st = "running" /\ mission[r].out = ""
    /\ mission' = Attention(r)
    /\ UNCHANGED <<now, stamp, health, counted, thread, rest>>

\* transition_stalled_provider_liveness_runs, whatever the processor is doing
Stalled(r) ==
    /\ mission[r].st = "running"
    /\ mission' = Attention(r)
    /\ UNCHANGED <<now, stamp, health, counted, thread, rest>>

\* The user resumes a run that asked for input.
Resume(r) ==
    /\ mission[r].st = "needs_input"
    /\ mission' = Queued(r, now)
    /\ UNCHANGED <<now, stamp, health, counted, thread, rest>>

-----------------------------------------------------------------------------
\* When it has ended

\* A thread that collects the result of the attempt beside its processor or after it
Collect(p, r) ==
    /\ At(p, "idle") /\ mission[r].st = "running" /\ mission[r].out # ""
    /\ thread' = [thread EXCEPT ![p] = [pc |-> "wait_exit", run |-> r, att |-> mission[r].att,
                                        locked |-> mission[r].locked, until |-> 0, t |-> 0,
                                        quota |-> FALSE]]
    /\ UNCHANGED <<now, stamp, health, counted, mission, rest>>

Completed(p) ==
    /\ At(p, "wait_exit") /\ Exact(p) /\ Mine(p).st = "running" /\ Mine(p).out = "ok"
    /\ mission' = Ended(thread[p].run, "completed")
    /\ thread' = [thread EXCEPT ![p].pc = "clear", ![p].t = Mine(p).obs]
    /\ UNCHANGED <<now, stamp, health, counted, rest>>

\* Mutant of Clearable: a success closes the circuit.
ClearableAnyway(p) == TRUE

\* clear_provider_route_health: the circuit is exactly the one that the attempt had seen
Clearable(p) ==
    LET x == Mine(p).route
    IN  health[x].open /\ thread[p].t > 0 /\ health[x].gen = thread[p].t

ClearRoute(p) ==
    /\ At(p, "clear")
    /\ health' = IF Clearable(p) THEN [health EXCEPT ![Mine(p).route] = Closed] ELSE health
    /\ Leave(p)
    /\ UNCHANGED <<now, stamp, counted, mission, rest>>

\* An attempt that another thread has settled or a user ended is left alone.
Late(p) ==
    /\ At(p, "wait_exit") /\ (~Exact(p) \/ Mine(p).st # "running")
    /\ Leave(p)
    /\ UNCHANGED <<now, stamp, health, counted, mission, rest>>

\* The time of the failure and the reset that the evidence names
Failed(p, d) ==
    /\ At(p, "wait_exit") /\ Exact(p) /\ Mine(p).st = "running" /\ Mine(p).out \in {"quota", "rate"}
    /\ stamp < MaxFailures /\ stamp' = stamp + 1
    /\ thread' = [thread EXCEPT ![p].pc = "record", ![p].t = stamp + 1, ![p].until = now + d,
                              ![p].quota = Mine(p).out = "quota"]
    /\ UNCHANGED <<now, health, counted, mission, rest>>

FailedOtherwise(p) ==
    /\ At(p, "wait_exit") /\ Exact(p) /\ Mine(p).st = "running" /\ Mine(p).out = "other"
    /\ Go(p, "fail")
    /\ UNCHANGED <<now, stamp, health, counted, mission, rest>>

\* Mutant of NewCooldown: the newest evidence decides.
NewCooldown_Newest(h, until) == until

\* A reset that was named before is kept if it is later.
NewCooldown(h, until) == IF h.open THEN Larger(h.until, until) ELSE until

Evidence(p) == <<thread[p].run, thread[p].att>>

\* record_provider_route_failure: once per attempt, and never over a newer failure
Record(p) ==
    /\ At(p, "record")
    /\ LET x == Mine(p).route
           h == health[x]
           until == NewCooldown(h, thread[p].until)
       IN  /\ IF Evidence(p) \in counted \/ (h.open /\ h.t > thread[p].t)
              THEN UNCHANGED <<health, rest>>
              ELSE /\ health' = [health EXCEPT ![x] =
                        [open |-> TRUE, gen |-> (IF h.open THEN h.gen ELSE 0) + 1, t |-> thread[p].t,
                         until |-> until, last |-> thread[p].run]]
                   /\ rest' = [rest EXCEPT ![x] = Larger(@, thread[p].until)]
           /\ counted' = counted \cup {Evidence(p)}
    /\ thread' = [thread EXCEPT ![p].pc = IF thread[p].quota THEN "quota" ELSE "rate",
                              ![p].t = 0, ![p].quota = FALSE]
    /\ UNCHANGED <<now, stamp, mission>>

\* The evidence of this run is still the newest of its circuit.
OwnCircuit(p) == health'[Mine(p).route].open /\ health'[Mine(p).route].last = thread[p].run

\* _switch_quota_exhausted_run_to_fallback
Exhausted(p, ready) ==
    /\ At(p, "quota")
    /\ health' = StillOpen
    /\ thread' = [thread EXCEPT
         ![p].pc = IF ~OwnCircuit(p) THEN "fail"
                   ELSE IF thread[p].locked THEN "wait"
                   ELSE IF Fallback(p, ready) /\ ~health'["fallback"].open THEN "switch_failed"
                   ELSE "fail",
         ![p].until = IF OwnCircuit(p) THEN health'[Mine(p).route].until ELSE 0]
    /\ UNCHANGED <<now, stamp, counted, mission, rest>>

SwitchFailed(p) ==
    /\ At(p, "switch_failed")
    /\ IF Switchable(thread[p].run) THEN mission' = Switched(thread[p].run) /\ Leave(p)
       ELSE UNCHANGED mission /\ Go(p, "fail")
    /\ UNCHANGED <<now, stamp, health, counted, rest>>

\* A rate limit with a time is retried then.
RateLimited(p) == At(p, "rate") /\ (Go(p, "wait") \/ Go(p, "fail"))
                  /\ UNCHANGED <<now, stamp, health, counted, mission, rest>>

Fail(p) ==
    /\ At(p, "fail")
    /\ mission' = IF Exact(p) /\ Mine(p).st = "running"
              THEN Ended(thread[p].run, "failed") ELSE mission
    /\ Leave(p)
    /\ UNCHANGED <<now, stamp, health, counted, rest>>

-----------------------------------------------------------------------------

\* The process dies; claimed runs go back to the queue, running ones are collected later.
RoutesCrash ==
    /\ \E p \in Handlers : ~At(p, "idle")
    /\ mission' = [r \in Missions |->
                     IF mission[r].st = "claimed" THEN Queued(r, now)[r] ELSE mission[r]]
    /\ thread' = [p \in Handlers |-> NoMission]
    /\ UNCHANGED <<now, stamp, health, counted, rest>>

TimePasses ==
    /\ now < LastTime /\ now' = now + 1
    /\ UNCHANGED <<stamp, health, counted, mission, thread, rest>>

RouteNext ==
    \/ \E p \in Handlers :
         \/ \E r \in Missions : Claim(p, r) \/ Collect(p, r)
         \/ Select(p) \/ Skip(p) \/ Switch(p) \/ Wait(p) \/ Invoke(p)
         \/ \E ready \in BOOLEAN : Look(p, ready) \/ Exhausted(p, ready)
         \/ Completed(p) \/ ClearRoute(p) \/ Late(p) \/ FailedOtherwise(p) \/ Record(p)
         \/ \E d \in Cooldowns : Failed(p, d)
         \/ SwitchFailed(p) \/ RateLimited(p) \/ Fail(p)
    \/ \E r \in Missions :
         \/ \E out \in Outcomes : ProcessExits(r, out)
         \/ ObserveLiveness(r) \/ Stalled(r) \/ Resume(r)
    \/ RoutesCrash \/ TimePasses

RouteSpec == RouteInit /\ [][RouteNext]_routeVars

-----------------------------------------------------------------------------
\* Properties

(* A route rests until the latest reset that any failure entered for it: no attempt is invoked
   that chose its route earlier, although failures of other runs are entered out of order and
   with shorter resets, circuits are deleted when anybody looks, and successes close them. *)
CooldownKept == \A r \in Missions : mission[r].st = "running" => mission[r].sel >= mission[r].rest

(* A run changes its route at most once, to its fallback, and never after its provider stalled:
   also not by a thread that decided to switch it in an earlier attempt. *)
RouteOnce ==
    \A r \in Missions : mission'[r].route # mission[r].route =>
                            mission[r].route = "primary" /\ ~mission[r].locked

RouteIsExact == [][RouteOnce]_routeVars

(* No attempt is invoked on a route that rests (record_provider_route_failure and its readers),
   and a run changes its route once at most, and never after its provider stalled
   (switch_worker_profile_and_requeue_run). *)
CircuitsRouteOnce == []CooldownKept /\ RouteIsExact
=============================================================================
