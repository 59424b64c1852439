------------------------------ MODULE MCOutbox ------------------------------
(* Small instances of the callback outbox for TLC. *)
EXTENDS CallbackOutbox, TLC

\* Two processes that run the same program on one database.
WorkerSymmetry == Permutations(Workers)
=============================================================================
