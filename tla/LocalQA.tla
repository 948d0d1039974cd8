------------------------------ MODULE LocalQA ------------------------------
(***************************************************************************)
(* The one-shot fault controls of installed local QA                       *)
(* (local_qa_control.py).  A command line process arms, lists, clears and  *)
(* removes controls in the runtime's database; the threads of the service  *)
(* consume them where a fault may strike, apply the fault and record that  *)
(* they did.  Both sides act under an environment of their own: the        *)
(* session (case, mode, token and session reference) and the digest        *)
(* (candidate and component artifact) of the build they were started with, *)
(* which an upgrade replaces on one side before the other.                 *)
(*                                                                         *)
(* A control belongs to an arm identity, which the ledger keeps for ever;  *)
(* the control and its audit rows are removed by a cleanup.                *)
(***************************************************************************)
EXTENDS Naturals, Sequences, FiniteSets

CONSTANTS Environments, \* the session and digest a side can be started with
          Threads,    \* service threads that may meet a fault boundary
          MaxControls, MaxTime, MaxRuns, MaxArtifacts, MaxTtl

ASSUME QAAssumption == {MaxControls, MaxTime, MaxRuns, MaxArtifacts, MaxTtl} \subseteq Nat

VARIABLES qnow,       \* the clock
          svc,        \* the service's environment
          cli,        \* the command line's environment
          fixture,    \* the synthetic work the controls are scoped to
          controls,   \* local_qa_fault_controls by control_ref
          qledger,    \* local_qa_fault_arm_ledger by arm identity
          trail,      \* local_qa_fault_audit
          hand,       \* the directive each thread carries to its effect
          fired,      \* history: the consumptions, in order
          born        \* history: the identity each control was armed for

qvars == <<qnow, svc, cli, fixture, controls, qledger, trail, hand, fired, born>>

Refs == 1..MaxControls

\* The boundaries by how they act: case 016 ones that a selected fixture
\* applies while arming (a recorded failure, a stalled run), and case 017
\* ones that wait for the service, one of them bound to an artifact.
Boundaries == {"failure", "stall", "transport", "artifact"}
Supported(session) ==
    IF session = "case016" THEN {"failure", "stall"} ELSE {"transport", "artifact"}

Digests == {env.digest : env \in Environments}
Inactive == [session |-> "", digest |-> ""]
NoControl == [status |-> "none"]
NoDirective == [ref |-> 0]

\* The scope of a control; every boundary is bound to a run.
Scope(b, run, artifact) ==
    [boundary |-> b, run |-> run, artifact |-> IF b = "artifact" THEN artifact ELSE 0]

\* The identity adds the fixture's run and artifact whatever the boundary.
ArmIdentity(env, b, run, artifact) ==
    [env |-> env, scope |-> Scope(b, run, artifact), run |-> run, artifact |-> artifact]

Under(r, env) == controls[r].status # "none" /\ controls[r].env = env
Overdue(r, env) ==
    Under(r, env) /\ controls[r].status = "armed" /\ controls[r].expires <= qnow

\* The controls after those in changed took a status, the ledger rows of the
\* same controls, and the audit rows one action adds for them.
Marked(ctl, changed, status) ==
    [r \in Refs |-> IF r \in changed THEN [ctl[r] EXCEPT !.status = status] ELSE ctl[r]]
SetLedgerStatus(ledger, changed, status) ==
    [id \in DOMAIN ledger |->
        IF ledger[id].ref \in changed THEN [ledger[id] EXCEPT !.status = status]
        ELSE ledger[id]]
Audited(changed, action) == {[ref |-> r, action |-> action] : r \in changed}

\* What _expire_session_controls makes of the three tables.
ExpiredNow(env) == {r \in Refs : Overdue(r, env)}
ExpiredControls(env) == Marked(controls, ExpiredNow(env), "expired")
ExpiredLedger(env) == SetLedgerStatus(qledger, ExpiredNow(env), "expired")
ExpiredTrail(env) == trail \cup Audited(ExpiredNow(env), "expired")

QAInit ==
    /\ qnow = 0
    /\ svc \in Environments
    /\ cli = svc
    /\ fixture \in [run : {1}, artifact : {1}, selected : BOOLEAN,
                    state : {"live"}, applied : {{}}]
    /\ controls = [r \in Refs |-> NoControl]
    /\ qledger = <<>>
    /\ trail = {}
    /\ hand = [t \in Threads |-> NoDirective]
    /\ fired = <<>>
    /\ born = <<>>

\* Arming: the request carries the environment of the command line, its
\* boundary belongs to the case, and the fixture exists.
MayArm(b) == cli # Inactive /\ b \in Supported(cli.session)
Identity(b) == ArmIdentity(cli, b, fixture.run, fixture.artifact)

\* The controls of the same scope.  One of them under another identity (the
\* fixture has another artifact by now) refuses the arm: the ledger keeps one
\* row per control and its insert for the second identity fails.
SameScope(b) ==
    {r \in Refs : /\ Under(r, cli)
                  /\ controls[r].scope = Scope(b, fixture.run, fixture.artifact)}

\* An identity the ledger knows is only reported, and only while its control
\* exists; the overdue controls of the session still expire.
ArmKnown(b, ttl) ==
    /\ MayArm(b)
    /\ Identity(b) \in DOMAIN qledger
    /\ qledger[Identity(b)].ttl = ttl
    /\ controls[qledger[Identity(b)].ref].status # "none"
    /\ controls' = ExpiredControls(cli)
    /\ qledger' = ExpiredLedger(cli)
    /\ trail' = ExpiredTrail(cli)
    /\ UNCHANGED <<qnow, svc, cli, fixture, hand, fired, born>>

\* A selected fixture of case 016 takes the boundary in the transaction that
\* arms it.  A failure adds its event, route or capacity record; a stall adds
\* an attempt, its released lease and the liveness events, and parks the run
\* and its worker in needs_input.
AppliesAtOnce(b) == fixture.selected /\ b \in {"failure", "stall"}
AppliedFailure(r) == [fixture EXCEPT !.applied = @ \cup {r}]
AppliedStall(r) == [fixture EXCEPT !.applied = @ \cup {r}, !.state = "needs_input"]
AppliedBoundary(b, r) == IF b = "stall" THEN AppliedStall(r) ELSE AppliedFailure(r)

NewControl(b, ttl) ==
    [status  |-> IF AppliesAtOnce(b) THEN "consumed" ELSE "armed",
     env     |-> cli,
     scope   |-> Scope(b, fixture.run, fixture.artifact),
     ttl     |-> ttl,
     expires |-> qnow + ttl]

ArmNew(b, ttl) ==
    /\ MayArm(b)
    /\ Identity(b) \notin DOMAIN qledger
    /\ SameScope(b) = {}
    /\ Len(born) < MaxControls
    /\ LET r == Len(born) + 1
           row == [ref |-> r, ttl |-> ttl, status |-> NewControl(b, ttl).status]
       IN  /\ controls' = [ExpiredControls(cli) EXCEPT ![r] = NewControl(b, ttl)]
           /\ qledger' = [id \in DOMAIN qledger \cup {Identity(b)} |->
                 IF id = Identity(b) THEN row ELSE ExpiredLedger(cli)[id]]
           /\ trail' = ExpiredTrail(cli) \cup
                 {[ref |-> r, action |-> a] :
                    a \in IF AppliesAtOnce(b)
                          THEN {"armed", "consumed", "effect_applied"} ELSE {"armed"}}
           /\ fixture' = IF AppliesAtOnce(b) THEN AppliedBoundary(b, r) ELSE fixture
           /\ fired' = IF AppliesAtOnce(b)
                       THEN Append(fired, [ref |-> r, env |-> cli, at |-> qnow,
                                           scope |-> NewControl(b, ttl).scope])
                       ELSE fired
           /\ born' = Append(born, [id |-> Identity(b), expires |-> qnow + ttl])
    /\ UNCHANGED <<qnow, svc, cli, hand>>

\* A service thread meets boundary b for a run and an artifact it holds,
\* which the fixture may have left since.
Matching(b, run, artifact) ==
    {r \in Refs : /\ Under(r, svc)
                  /\ controls[r].scope = Scope(b, run, artifact)
                  /\ controls[r].status = "armed"
                  /\ controls[r].expires > qnow}

MayConsume(t, b) == hand[t] = NoDirective /\ svc # Inactive /\ b \in Supported(svc.session)

\* No control matches: the overdue ones of the environment expire.
ConsumeNone(t, b, run, artifact) ==
    /\ MayConsume(t, b)
    /\ Matching(b, run, artifact) = {}
    /\ ExpiredNow(svc) # {}
    /\ controls' = ExpiredControls(svc)
    /\ qledger' = ExpiredLedger(svc)
    /\ trail' = ExpiredTrail(svc)
    /\ UNCHANGED <<qnow, svc, cli, fixture, hand, fired, born>>

Consume(t, b, run, artifact) ==
    /\ MayConsume(t, b)
    /\ \E r \in Matching(b, run, artifact) :
          /\ \A s \in Matching(b, run, artifact) : r <= s
          /\ controls' = Marked(ExpiredControls(svc), {r}, "consumed")
          /\ qledger' = SetLedgerStatus(ExpiredLedger(svc), {r}, "consumed")
          /\ trail' = ExpiredTrail(svc) \cup Audited({r}, "consumed")
          /\ hand' = [hand EXCEPT ![t] = [ref |-> r, scope |-> Scope(b, run, artifact)]]
          /\ fired' = Append(fired, [ref |-> r, env |-> svc, at |-> qnow,
                                     scope |-> Scope(b, run, artifact)])
    /\ UNCHANGED <<qnow, svc, cli, fixture, born>>

\* The thread has applied the fault and records it, once per control; a
\* control that a cleanup removed meanwhile is refused.
RecordEffect(t) ==
    /\ hand[t] # NoDirective
    /\ LET c == controls[hand[t].ref]
       IN  trail' = IF c.status = "consumed" /\ c.scope = hand[t].scope
                    THEN trail \cup Audited({hand[t].ref}, "effect_applied")
                    ELSE trail
    /\ hand' = [hand EXCEPT ![t] = NoDirective]
    /\ UNCHANGED <<qnow, svc, cli, fixture, controls, qledger, fired, born>>

Query ==
    /\ cli # Inactive
    /\ ExpiredNow(cli) # {}
    /\ controls' = ExpiredControls(cli)
    /\ qledger' = ExpiredLedger(cli)
    /\ trail' = ExpiredTrail(cli)
    /\ UNCHANGED <<qnow, svc, cli, fixture, hand, fired, born>>

\* Clearing takes an armed control, overdue or not, of the command line's
\* own environment.
Clear(r) ==
    /\ cli # Inactive
    /\ Under(r, cli)
    /\ controls[r].status = "armed"
    /\ controls' = Marked(controls, {r}, "cleared")
    /\ qledger' = SetLedgerStatus(qledger, {r}, "cleared")
    /\ trail' = trail \cup Audited({r}, "cleared")
    /\ UNCHANGED <<qnow, svc, cli, fixture, hand, fired, born>>

\* A cleanup names a build, its own or a replaced one, of the command line's
\* session: what is armed under a replaced build is cleared, what is armed
\* under its own build refuses the cleanup.
Target(digest) == [cli EXCEPT !.digest = digest]
ReplacedArmed(digest) ==
    {r \in Refs : /\ digest # cli.digest
                  /\ Under(r, Target(digest))
                  /\ ExpiredControls(Target(digest))[r].status = "armed"}
StillArmed(digest) ==
    {r \in Refs : /\ digest = cli.digest
                  /\ Under(r, cli)
                  /\ ExpiredControls(cli)[r].status = "armed"}

\* Mutant of LedgerAfterCleanup: the ledger rows go with their controls.
ForgetfulCleanup(digest) ==
    [id \in {i \in DOMAIN qledger : qledger[i].ref \notin {r \in Refs : Under(r, Target(digest))}}
        |-> qledger[id]]

\* The ledger outlives the controls.
LedgerAfterCleanup(digest) ==
    SetLedgerStatus(ExpiredLedger(Target(digest)), ReplacedArmed(digest), "cleared")

Cleanup(digest) ==
    /\ cli # Inactive
    /\ StillArmed(digest) = {}
    /\ \E r \in Refs : Under(r, Target(digest))
    /\ controls' = [r \in Refs |-> IF Under(r, Target(digest)) THEN NoControl ELSE controls[r]]
    /\ qledger' = LedgerAfterCleanup(digest)
    /\ trail' = {a \in trail : ~Under(a.ref, Target(digest))}
    /\ UNCHANGED <<qnow, svc, cli, fixture, hand, fired, born>>

\* An upgrade or the end of a session replaces the environment of one side;
\* the service restarts for it and forgets the directives in hand.
ReplaceCli(env) ==
    /\ env # cli
    /\ cli' = env
    /\ UNCHANGED <<qnow, svc, fixture, controls, qledger, trail, hand, fired, born>>

RestartService(env) ==
    /\ svc' = env
    /\ hand' = [t \in Threads |-> NoDirective]
    /\ <<svc', hand'>> # <<svc, hand>>
    /\ UNCHANGED <<qnow, cli, fixture, controls, qledger, trail, fired, born>>

\* The fixture's work moves on: another run, another artifact of the run.
AdvanceFixture ==
    /\ \/ /\ fixture.run < MaxRuns
          /\ fixture' = [fixture EXCEPT !.run = @ + 1, !.state = "live"]
       \/ /\ fixture.artifact < MaxArtifacts
          /\ fixture' = [fixture EXCEPT !.artifact = @ + 1]
    /\ UNCHANGED <<qnow, svc, cli, controls, qledger, trail, hand, fired, born>>

Tick ==
    /\ qnow < MaxTime
    /\ qnow' = qnow + 1
    /\ UNCHANGED <<svc, cli, fixture, controls, qledger, trail, hand, fired, born>>

QANext ==
    \/ \E b \in Boundaries, ttl \in 1..MaxTtl :
          ArmKnown(b, ttl) \/ ArmNew(b, ttl)
    \/ \E t \in Threads, b \in Boundaries, run \in 1..fixture.run,
          artifact \in 1..fixture.artifact :
          ConsumeNone(t, b, run, artifact) \/ Consume(t, b, run, artifact)
    \/ \E t \in Threads : RecordEffect(t)
    \/ Query
    \/ \E r \in Refs : Clear(r)
    \/ \E d \in Digests : Cleanup(d)
    \/ \E env \in Environments \cup {Inactive} : ReplaceCli(env) \/ RestartService(env)
    \/ AdvanceFixture
    \/ Tick

QASpec == QAInit /\ [][QANext]_qvars

(***************************************************************************)
(* Properties                                                              *)
(***************************************************************************)

\* A fault strikes at most once for an arm identity, whatever expiries,
\* clearings, cleanups, upgrades and repeated arms come between.
FaultOnce ==
    \A i, j \in DOMAIN fired :
        born[fired[i].ref].id = born[fired[j].ref].id => i = j

\* It strikes only under the build and session it was armed for, at the
\* scope it was armed for, and before it expires.
FaultIsExact ==
    \A i \in DOMAIN fired :
        LET b == born[fired[i].ref]
        IN  /\ fired[i].env = b.id.env
            /\ fired[i].scope = b.id.scope
            /\ fired[i].at < b.expires

\* What the operator reads is what happened: a control that exists agrees
\* with its ledger row, its audit rows tell how it ended, and an effect is
\* recorded only of a control that was consumed.
TrailIsTrue ==
    \A r \in Refs : controls[r].status # "none" =>
        /\ \E id \in DOMAIN qledger :
              qledger[id].ref = r /\ qledger[id].status = controls[r].status
        /\ {a.action : a \in {x \in trail : x.ref = r}} \ {"armed", "effect_applied"} =
              {controls[r].status} \ {"armed"}
        /\ [ref |-> r, action |-> "effect_applied"] \in trail =>
              \E i \in DOMAIN fired : fired[i].ref = r

\* A local QA fault strikes at most once for what it was armed for, only there and in time, and
\* the ledger and the audit rows say so (arm, consume, record_effect, clear and cleanup, called
\* from the command line and from the threads of a service that is upgraded meanwhile).
FaultsExact == FaultOnce /\ FaultIsExact /\ TrailIsTrue

=============================================================================
