------------------------------ MODULE MCLedger ------------------------------
(* Instances of the modules around the tables of the store, for TLC.  They share no state, so  *)
(* one of them is in play and the others stay in an initial state: the ledger with one run; the *)
(* library with two workspaces, two versions of an item and the item that the newer one pins;  *)
(* three requests to copy a workspace; two requests to admit work.                             *)
EXTENDS HostRuns, Capabilities, Intake, Copies, TLC

CONSTANTS w1, e1, e2

VARIABLE part

OneRun == {1}
OneWorker == {w1}
OneWorkerOf == [r \in Runs |-> w1]

ItemA == [stable |-> "a", version |-> 1, deps |-> {}]
Shelves == "a1" :> ItemA @@ "a2" :> [ItemA EXCEPT !.version = 2, !.deps = {"d"}]
           @@ "d" :> [ItemA EXCEPT !.stable = "d"]

Versions == DOMAIN Shelves
StableOf == [i \in Versions |-> Shelves[i].stable]
VersionOf == [i \in Versions |-> Shelves[i].version]
DepsOf == [i \in Versions |-> Shelves[i].deps]
ScopesOf == [i \in Versions |-> {"r"}]

\* Bound: grants and disturbances of the library, together.
LibraryBound == made + turns <= 3

Asks(op, k, d, o, m, a) == [op |-> op, key |-> k, dig |-> d, origin |-> o, mode |-> m, auth |-> a]
AskedFor ==
    {Asks("delegate", 1, 1, 1, "docker", TRUE), Asks("delegate", 1, 2, 2, "docker", FALSE),
     Asks("delegate", 2, 1, 1, "host", FALSE), Asks("alias", 0, 0, 0, "docker", FALSE)}

ledgerVars == <<run, attempt, lease, worker>>

NoCopies == CopyInit /\ Duplicating /\ prompt
NoIntake == IntakeInit /\ \A c \in Callers : ~Delegation(c)

PartInit ==
    /\ Init /\ CapInit
    /\ \/ part \in {"ledger", "library"} /\ NoCopies /\ NoIntake
       \/ part = "copies" /\ CopyInit /\ NoIntake
       \/ part = "intake" /\ IntakeInit /\ NoCopies

PartNext ==
    /\ UNCHANGED part
    /\ \/ part = "ledger" /\ Next /\ UNCHANGED <<capVars, copyVars, intakeVars>>
       \/ part = "library" /\ CapNext /\ LibraryBound'
          /\ UNCHANGED <<ledgerVars, copyVars, intakeVars>>
       \/ part = "copies" /\ CopyNext
          /\ UNCHANGED <<ledgerVars, capVars, intakeVars>>
       \/ part = "intake" /\ IntakeNext
          /\ UNCHANGED <<ledgerVars, capVars, copyVars>>

PartSpec == PartInit /\ [][PartNext]_<<part, ledgerVars, capVars, copyVars, intakeVars>>
=============================================================================
