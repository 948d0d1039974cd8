---------------------------- MODULE MCRunControl ----------------------------
(* Small instances of RunControl for TLC: the runs share one worker.         *)
EXTENDS RunControl

CONSTANTS w1, e1, e2

OneRun == {1}
TwoRuns == {1, 2}
OneWorker == {w1}
OneWorkerOf == [r \in Runs |-> w1]
=============================================================================
