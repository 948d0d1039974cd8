----------------------------- MODULE MCDelivery -----------------------------
(* Instances of CallbackOutbox, QueueNotices and HostProcess for TLC.  They     *)
(* share no state, so one of them is in play while the others stay in an        *)
(* initial state: the outbox with two senders, the notices of a waiting run     *)
(* with the passes of two service processes, or the host processes of a worker  *)
(* that the same two service processes launch, stop and reconcile.              *)
EXTENDS CallbackOutbox, QueueNotices, HostProcess, TLC

VARIABLE part

Symmetry == Permutations(Senders) \cup Permutations(Emitters)
OneRunOf == [g \in Gens |-> "run"]

NoWait == QueueInit /\ sink
NoHost == ProcessInit /\ lane = "mission"

\* Bound: a crash or stall of a service process, or a mishap, but not both.
OneTrouble == spent.crashes + spent.mishaps <= 1

\* Bound: of the rows that spent their budget only notices are replayed here (MCCallbackOutbox
\* has the replays of results), and no fault comes before or during such a replay.
ReplayOrFault ==
    \A s \in Senders : sender[s].pc # "idle" /\ sender[s].stored >= MaxTotal
                        => faults = 0 /\ sender[s].id.kind = "notice"

DeliveryInit ==
    /\ OutboxInit
    /\ \/ part = "outbox" /\ NoWait /\ NoHost
       \/ part = "waits" /\ QueueInit /\ NoHost
       \/ part = "host" /\ ProcessInit /\ NoWait

DeliveryNext ==
    \/ part = "outbox" /\ OutboxNext /\ ReplayOrFault' /\ UNCHANGED <<part, queueVars, pvars>>
    \/ part = "waits" /\ QueueNext /\ UNCHANGED <<part, ovars, pvars>>
    \/ part = "host" /\ ProcessNext /\ OneTrouble' /\ UNCHANGED <<part, ovars, queueVars>>

DeliverySpec == DeliveryInit /\ [][DeliveryNext]_<<part, ovars, queueVars, pvars>>
=============================================================================
