----------------------------- MODULE MCRequests -----------------------------
(* Instances of the modules that serve requests, for TLC.  They share no state, *)
(* so one of them is in play and the others stay in an initial state: the       *)
(* actions of active work with two keys, the pairs of actions that disturb each *)
(* other and two interchangeable service processes; a provider account with a   *)
(* mission, an interactive session and one clerk; the fault controls of local   *)
(* QA, armed and consumed under three builds and sessions.                      *)
EXTENDS ActiveWork, ProviderAccounts, LocalQA, TLC

CONSTANTS one, two, clrk

VARIABLE part

ThreeEnvironments ==
    {[session |-> "case016", digest |-> "d1"], [session |-> "case016", digest |-> "d2"],
     [session |-> "case017", digest |-> "d1"]}

Pair(x, y) == 1 :> x @@ 2 :> y
QueueAndSteer == Pair("steer", "queue")
AllMixes == {QueueAndSteer, Pair("pause", "resume"), Pair("message", "stop"),
             Pair("retry", "dismiss"), Pair("retry_run", "retry"), Pair("cancel_run", "pause")}
Processes == Permutations({one, two})
Mixed == {<<"v", "mission">>, <<"w", "interactive">>}

NoWork == AwInit /\ ActionOf = QueueAndSteer /\ run[0].st = "queued"
NoAccounts == AccountsInit /\ account.status = "ready" /\ Native
NoControls == QAInit /\ svc = [session |-> "case016", digest |-> "d1"] /\ fixture.selected

RequestsInit ==
    \/ part = "work" /\ AwInit /\ NoAccounts /\ NoControls
    \/ part = "accounts" /\ AccountsInit /\ NoWork /\ NoControls
    \/ part = "faults" /\ QAInit /\ NoWork /\ NoAccounts

\* A bound: after a second fault the clerk does nothing more.
ClerkRests == trouble <= 1 \/ clerk' = clerk

RequestsNext ==
    \/ part = "work" /\ AwNext /\ UNCHANGED <<ActionOf, part, acctVars, qvars>>
    \/ part = "accounts" /\ AccountsNext /\ ClerkRests /\ UNCHANGED <<part, awVars, qvars>>
    \/ part = "faults" /\ QANext /\ UNCHANGED <<part, awVars, acctVars>>

RequestsSpec == RequestsInit /\ [][RequestsNext]_<<part, awVars, acctVars, qvars>>
=============================================================================
