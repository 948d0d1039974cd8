--------------------------- MODULE MCHostCapacity ---------------------------
(* What holds a queued run back, for TLC: the capacity of the host, with one lane for all runs   *)
(* and a second limit of one for some of them (the missions of one account, or the writers of    *)
(* one repository), and the circuits of its provider's routes, with two interchangeable threads  *)
(* over two runs.  They share no state: one is chosen at the start and the other stays out.      *)
EXTENDS HostCapacity, RouteHealth, TLC

CONSTANTS LaneLimit, Single

VARIABLE part

MCPools == {[members |-> Runs, limit |-> LaneLimit], [members |-> Single, limit |-> 1]}
Interchangeable == Permutations(Handlers) \cup Permutations(Executors)

\* The routes stay as they are while the capacity is in play, and the other way round.
GateInit == part \in {"capacity", "routes"} /\ Init /\ RouteInit

\* Bound: attempts, failures and ticks of the clock, together.
RoutesBound == Attempts + stamp + now <= 5

GateNext ==
    \/ part = "capacity" /\ Next /\ UNCHANGED <<part, routeVars>>
    \/ part = "routes" /\ RouteNext /\ RoutesBound' /\ UNCHANGED <<part, cvars>>

GateSpec == GateInit /\ [][GateNext]_<<part, cvars, routeVars>>
=============================================================================
