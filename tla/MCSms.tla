------------------------------- MODULE MCSms -------------------------------
(* Small instances of the SMS API for TLC. *)
EXTENDS SmsRequests, TLC

\* Requests that run the same handler.
HandlerSymmetry == Permutations(Handlers)

\* The state without the history variable `forgotten` and the progress of the
\* message history: no guard reads the former, and reading the history does to
\* the tables what a webhook may do at the same time, or nothing.
BooksAndHandlers ==
    <<table, usage, healthy, handler, gateway, current, accidents, stalls>>
=============================================================================
