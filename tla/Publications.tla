---------------------------- MODULE Publications ----------------------------
(***************************************************************************)
(* What the content scheduler promises about a scheduled post, without     *)
(* processes, claims, attempts or campaigns.  Meta is asked for a post of  *)
(* an open publication whose credits have been held, and for another one   *)
(* only after a doubt: the server did not learn of the post, forgot it, or *)
(* took the row from a worker that was still at it.  A publication is      *)
(* published with a post, and given up or cancelled without one it knows   *)
(* of.  Held credits are charged for a post or dropped without one, once,  *)
(* and a row that is published while its credits are held says so.         *)
(*                                                                         *)
(* A row that was taken from a live worker is overtaken: what it shows may *)
(* be overwritten, but posts and credits still follow these rules.         *)
(***************************************************************************)
EXTENDS Naturals

CONSTANT Rows

VARIABLES
    state,      \* "none", "open", "published", "failed" or "cancelled"
    posts,      \* posts Meta made of a publication
    doubts,     \* times the server could not know whether there is a post
    overtaken,  \* the row was taken from a worker that was still at it
    stored,     \* the row holds the id of a post
    credit,     \* "none", "reserved", "committed" or "released"
    warned      \* the published row holds a billing warning

vars == <<state, posts, doubts, overtaken, stored, credit, warned>>

IsOpen(i) == state[i] = "open" \/ overtaken[i]

\* The server knows of a post that Meta made.
Knows(i) == posts[i] = doubts[i] + 1 \/ overtaken[i]
KnowsNone(i) == posts[i] = doubts[i] \/ overtaken[i]

Init ==
    /\ state = [i \in Rows |-> "none"]
    /\ posts = [i \in Rows |-> 0]
    /\ doubts = [i \in Rows |-> 0]
    /\ overtaken = [i \in Rows |-> FALSE]
    /\ stored = [i \in Rows |-> FALSE]
    /\ credit = [i \in Rows |-> "none"]
    /\ warned = [i \in Rows |-> FALSE]

----------------------------------------------------------------------------
(* Posts *)

Post(i) ==
    /\ IsOpen(i)
    /\ credit[i] # "none"
    /\ KnowsNone(i)
    /\ posts[i] <= doubts[i]
    /\ posts' = [posts EXCEPT ![i] = @ + 1]
    /\ UNCHANGED <<state, doubts, overtaken, stored, credit, warned>>

\* The answer does not arrive, is forgotten with the process that had it, or
\* is dropped because it cannot be stored, also after the row was published.
Lose(i) ==
    /\ IsOpen(i) \/ state[i] = "published"
    /\ Knows(i)
    /\ doubts' = [doubts EXCEPT ![i] = @ + 1]
    /\ UNCHANGED <<state, posts, overtaken, stored, credit, warned>>

----------------------------------------------------------------------------
(* Credits *)

SetCredit(i, from, to) ==
    /\ IsOpen(i)
    /\ credit[i] = from
    /\ credit' = [credit EXCEPT ![i] = to]
    /\ UNCHANGED <<state, posts, doubts, overtaken, stored, warned>>

Hold(i) == SetCredit(i, "none", "reserved")

Charge(i) == Knows(i) /\ posts[i] > 0 /\ SetCredit(i, "reserved", "committed")

Drop(i) == KnowsNone(i) /\ SetCredit(i, "reserved", "released")

----------------------------------------------------------------------------
(* Publications *)

Create(i) ==
    /\ state[i] = "none"
    /\ state' = [state EXCEPT ![i] = "open"]
    /\ UNCHANGED <<posts, doubts, overtaken, stored, credit, warned>>

Publish(i) ==
    /\ IsOpen(i)
    /\ Knows(i)
    /\ posts[i] > 0
    /\ state' = [state EXCEPT ![i] = "published"]
    /\ stored' = [stored EXCEPT ![i] = TRUE]
    /\ \E warning \in BOOLEAN :
        /\ credit[i] = "reserved" => warning
        /\ warned' = [warned EXCEPT ![i] = warning]
    /\ UNCHANGED <<posts, doubts, overtaken, credit>>

\* Also a published row whose post was dropped.
GiveUp(i) ==
    /\ IsOpen(i) \/ state[i] = "published"
    /\ KnowsNone(i)
    /\ state' = [state EXCEPT ![i] = "failed"]
    /\ warned' = [warned EXCEPT ![i] = FALSE]
    /\ UNCHANGED <<posts, doubts, overtaken, stored, credit>>

\* A user wants it after all.
Reopen(i) ==
    /\ state[i] = "failed"
    /\ state' = [state EXCEPT ![i] = "open"]
    /\ UNCHANGED <<posts, doubts, overtaken, stored, credit, warned>>

\* A worker that lost the row will try again.
Overwrite(i) ==
    /\ overtaken[i]
    /\ state' = [state EXCEPT ![i] = "open"]
    /\ warned' = [warned EXCEPT ![i] = FALSE]
    /\ UNCHANGED <<posts, doubts, overtaken, stored, credit>>

\* With the link to a page all its waiting publications are cancelled.
Cancel(S) ==
    /\ \A i \in S : state[i] \in {"open", "failed"} /\ KnowsNone(i)
    /\ state' = [i \in Rows |-> IF i \in S THEN "cancelled" ELSE state[i]]
    /\ UNCHANGED <<posts, doubts, overtaken, stored, credit, warned>>

\* Open rows that hold the id of a post are published, and rows are taken from
\* workers that are still at them.
Recover(S, T) ==
    /\ \A i \in S \cup T : state[i] = "open"
    /\ \A i \in S : stored[i] /\ (KnowsNone(i) \/ i \in T)
    /\ state' = [i \in Rows |-> IF i \in S THEN "published" ELSE state[i]]
    /\ doubts' = [i \in Rows |-> IF i \in T THEN doubts[i] + 1 ELSE doubts[i]]
    /\ overtaken' = [i \in Rows |-> overtaken[i] \/ i \in T]
    /\ UNCHANGED <<posts, stored, credit, warned>>

Next ==
    \/ \E i \in Rows :
        \/ Post(i) \/ Lose(i)
        \/ Hold(i) \/ Charge(i) \/ Drop(i)
        \/ Create(i) \/ Publish(i) \/ GiveUp(i) \/ Reopen(i) \/ Overwrite(i)
    \/ \E S, T \in SUBSET Rows : Recover(S, T)
    \/ \E S \in SUBSET Rows : Cancel(S)

Spec == Init /\ [][Next]_vars

=============================================================================
