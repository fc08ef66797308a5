--------------------------- MODULE MCAnalysisQueue ---------------------------
(***************************************************************************)
(* An instance of the task queue: two tasks of one user in one batch.      *)
(***************************************************************************)
EXTENDS AnalysisQueue, TLC

CONSTANTS t1, t2, u1

MCTasks    == {t1, t2}
MCUsers    == {u1}
MCOwner(t) == u1
MCBatch    == <<t1, t2>>

\* Workers differ in nothing but their names, and no property is a liveness property
WorkerSymmetry == Permutations(Workers)

=============================================================================
