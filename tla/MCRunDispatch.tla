---------------------------- MODULE MCRunDispatch ---------------------------
(* Instances of RunDispatch and CleanRoom for TLC, one of which is in play while *)
(* the other stays in an initial state.  Five instances of RunDispatch have the  *)
(* same variables: two runs under refused capacity, missing authorizations and   *)
(* unconfirmed starts; one run with pauses, resumes and expired leases; two runs *)
(* that compete while either is paused; one run that is retried while its worker *)
(* is closed; one run that is paused while its worker is closed.  All runs share *)
(* one worker and the threads of the pool are interchangeable.  Of a container   *)
(* either the image is upgraded or the proxies go away.                          *)
EXTENDS RunDispatch, CleanRoom, TLC

CONSTANTS w1, e1, t1, t2

OneRun == {1}
TwoRuns == {1, 2}
OneWorker == {w1}
OneWorkerOf == [r \in Runs |-> w1]
ThreadSymmetry == Permutations(Threads)

VARIABLE campaign

Recovery == INSTANCE RunDispatch WITH
    Runs <- OneRun, Kinds <- {"pause_run", "resume_run"}, Faults <- {"expiry"}
Rivals == INSTANCE RunDispatch WITH
    MaxAttempts <- 1, MaxTokens <- 1, Kinds <- {"pause_run"}, Faults <- {}
Closing == INSTANCE RunDispatch WITH
    Runs <- OneRun, Faults <- {"unconfirmed", "close"}
Stopping == INSTANCE RunDispatch WITH
    Runs <- OneRun, MaxTokens <- 1, Kinds <- {"pause_run"},
    Faults <- {"unconfirmed", "close"}

Processors ==
    \/ campaign = "faults" /\ DispatchInit
    \/ campaign = "recovery" /\ Recovery!DispatchInit
    \/ campaign = "rivals" /\ Rivals!DispatchInit
    \/ campaign = "closing" /\ Closing!DispatchInit
    \/ campaign = "stopping" /\ Stopping!DispatchInit

CampaignInit ==
    \/ Processors /\ CRInit /\ named = 0
    \/ campaign = "rooms" /\ CRInit /\ DispatchInit

\* Bound: an upgrade of the image or an outage of the proxies, not both, and an outage with the
\* first run only.
OneDisturbance == image + outages <= 2 /\ (outages = 0 \/ caller["launch"].run <= 1)

CampaignNext ==
    \/ campaign = "faults" /\ DispatchNext /\ UNCHANGED <<campaign, cvars>>
    \/ campaign = "recovery" /\ Recovery!DispatchNext /\ UNCHANGED <<campaign, cvars>>
    \/ campaign = "rivals" /\ Rivals!DispatchNext /\ UNCHANGED <<campaign, cvars>>
    \/ campaign = "closing" /\ Closing!DispatchNext /\ UNCHANGED <<campaign, cvars>>
    \/ campaign = "stopping" /\ Stopping!DispatchNext /\ UNCHANGED <<campaign, cvars>>
    \/ campaign = "rooms" /\ CRNext /\ OneDisturbance' /\ UNCHANGED <<campaign, dispatchVars>>

CampaignSpec == CampaignInit /\ [][CampaignNext]_<<dispatchVars, campaign, cvars>>

\* While no lease expires, no control retires a processor and no worker is closed, every
\* external process is fenced:
\* its run names its attempt and the active lease is that attempt's, so neither a
\* claim nor a control can miss it (the finally blocks of a processor whose start
\* could be neither confirmed nor stopped).  Expired leases and controls do not change
\* that a worker never has two processes (the registry of processors, the retry of a run
\* whose lease merely expired, and a pause that stops exactly the process it identified).
ProcessesExclusive ==
    /\ campaign = "faults" => ProcessFenced
    /\ campaign \in {"faults", "recovery", "rivals"} => OneProcess
=============================================================================
