----------------------------- MODULE MCContent -----------------------------
(* Small instances of the content scheduler for TLC. *)
EXTENDS ContentScheduler, TLC

\* Processes that run the same scheduler.
WorkerSymmetry == Permutations(Workers)
=============================================================================
