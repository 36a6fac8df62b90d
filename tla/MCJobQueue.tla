----------------------------- MODULE MCJobQueue -----------------------------
(***************************************************************************)
(* Small instances of JobQueue for TLC.  Two jobs are enough for a job to  *)
(* be claimed in the same session as another and for the order of claims   *)
(* to matter; the configurations choose the workers and the faults.        *)
(***************************************************************************)
EXTENDS JobQueue, TLC

CONSTANTS w1, w2

OneWorker == {w1}
TwoWorkers == {w1, w2}
OneJob == {1}
TwoJobs == {1, 2}

\* Workers run the same program: they may be exchanged in the safety runs.
WorkerSymmetry == Permutations({w1, w2})

=============================================================================
