--------------------------- MODULE ResultReceipt ----------------------------
(***************************************************************************)
(* What the callback channel promises its receiver.  Each run publishes    *)
(* numbered results, one content per number; the receiver holds at most    *)
(* one of them and only ever replaces it by a later one.                   *)
(***************************************************************************)
EXTENDS Naturals

CONSTANT Runs

VARIABLES
    published,   \* [Runs -> SUBSET (Nat \X content)]
    held         \* [Runs -> [rev, body]]; revision 0 is "nothing yet"

Nothing == [rev |-> 0, body |-> "none"]

ReceiptInit ==
    /\ published = [r \in Runs |-> {}]
    /\ held = [r \in Runs |-> Nothing]

\* The run gets its next result.
Publish(r, p) ==
    /\ \A q \in published[r] : q[1] < p[1]
    /\ published' = [published EXCEPT ![r] = @ \cup {p}]
    /\ UNCHANGED held

\* The receiver learns a result that is newer than the one it holds.
Receive(r, p) ==
    /\ p[1] > held[r].rev
    /\ held' = [held EXCEPT ![r] = [rev |-> p[1], body |-> p[2]]]
    /\ UNCHANGED published

ReceiptNext ==
    \E r \in Runs :
        \/ \E p \in published'[r] \ published[r] : Publish(r, p)
        \/ \E p \in published[r] : Receive(r, p)

ReceiptSpec == ReceiptInit /\ [][ReceiptNext]_<<published, held>>
=============================================================================
