---------------------------- MODULE MCSnapshots ----------------------------
(* A small instance of the product snapshots for TLC: a catalogue that sends *)
(* two snapshots of two pages, and a till that sends one of the legacy form. *)
EXTENDS ProductSnapshots

StreamOf == [s \in Streams |-> IF s \in Paged THEN "catalog" ELSE "pos"]
TwoOrOne == [s \in Streams |-> IF s \in Paged THEN 2 ELSE 1]

\* The catalogue's first snapshot may have come before the migration, in part
\* or complete; the till's page, and so its row, comes after.
First(s, n) == s \in Paged /\ n = 1

=============================================================================
