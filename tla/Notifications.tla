--------------------------- MODULE Notifications ---------------------------
(***************************************************************************)
(* What the notification outbox promises to users, without leases,         *)
(* attempts, dispatchers or crashes.  An event has a copy for each         *)
(* endpoint of an entitled user; no copy outlives the hands it was made    *)
(* for.  The provider is asked for an open copy only, one call at a time,  *)
(* while the user it was meant for holds the endpoint and is entitled.  A  *)
(* copy gets one outcome, and an event is closed when all its copies have  *)
(* one, with the result they give.  An error after an outcome was written  *)
(* may take it back, which `reopened' counts; then, and once a dispatcher  *)
(* has outlived its lease, the same user may be called again.              *)
(***************************************************************************)
EXTENDS Naturals

CONSTANTS Events, Subs, Users, None

Copies == Events \X Subs

VARIABLES
    holder,    \* user of an endpoint; None without subscription
    entitled,  \* the user of the endpoint may have notifications
    event,     \* "none", "pending", or the result of a closed event
    copy,      \* "none", "open", or its outcome
    meant,     \* the user a copy was made for
    asked,     \* copies of which the provider was asked and has not answered
    reopened,  \* how often an error took the outcome of a copy back
    late       \* a dispatcher has outlived its lease

vars == <<holder, entitled, event, copy, meant, asked, reopened, late>>

Init ==
    /\ holder \in [Subs -> Users \cup {None}]
    /\ entitled \in [Subs -> BOOLEAN]
    /\ event = [e \in Events |-> "none"]
    /\ copy = [d \in Copies |-> "none"]
    /\ meant = [d \in Copies |-> None]
    /\ asked = {}
    /\ reopened = [d \in Copies |-> 0]
    /\ late = FALSE

----------------------------------------------------------------------------
(* Events *)

IsOpen(e, c) == \E s \in Subs : c[<<e, s>>] = "open"

\* What becomes of an event whose copies all have an outcome.
Result(e, c) ==
    LET all == {c[<<e, s>>] : s \in Subs} \ {"none"}
    IN  CASE all \subseteq {"skipped"}  -> "no_recipients"
          [] all = {"delivered"}        -> "delivered"
          [] "delivered" \in all        -> "partial"
          [] OTHER                      -> "failed"

Recipients == {s \in Subs : holder[s] # None /\ entitled[s]}

Queue(e) ==
    LET new == {e} \X Recipients
    IN  /\ event[e] = "none"
        /\ event' = [event EXCEPT ![e] = IF Recipients = {} THEN "no_recipients"
                                                            ELSE "pending"]
        /\ copy' = [d \in Copies |-> IF d \in new THEN "open" ELSE copy[d]]
        /\ meant' = [d \in Copies |-> IF d \in new THEN holder[d[2]] ELSE meant[d]]
        /\ UNCHANGED <<holder, entitled, asked, reopened, late>>

\* Some events whose copies all have an outcome are closed.
Close ==
    \E S \in SUBSET {e \in Events : event[e] # "none" /\ ~IsOpen(e, copy')} :
        event' = [e \in Events |-> IF e \in S THEN Result(e, copy') ELSE event[e]]

CloseEvents ==
    /\ UNCHANGED <<holder, entitled, copy, meant, asked, reopened, late>>
    /\ Close

----------------------------------------------------------------------------
(* Endpoints *)

Entitle(s, b) ==
    /\ holder[s] # None
    /\ entitled' = [entitled EXCEPT ![s] = b]
    /\ UNCHANGED <<holder, event, copy, meant, asked, reopened, late>>

\* The endpoint is given up or goes to another user, and its copies go.
ChangeHands(s, h) ==
    /\ h # holder[s]
    /\ holder' = [holder EXCEPT ![s] = h]
    /\ \E b \in BOOLEAN : entitled' = [entitled EXCEPT ![s] = b]
    /\ copy' = [d \in Copies |-> IF d[2] = s THEN "none" ELSE copy[d]]
    /\ Close
    /\ asked' \in SUBSET asked
    /\ UNCHANGED <<meant, reopened, late>>

----------------------------------------------------------------------------
(* Copies *)

Ask(d) ==
    /\ copy[d] = "open"
    /\ d \notin asked \/ late
    /\ holder[d[2]] = meant[d]
    /\ entitled[d[2]]
    /\ asked' = asked \cup {d}
    /\ UNCHANGED <<holder, entitled, event, copy, meant, reopened, late>>

\* An outcome; "open" for a copy that is to be tried again.
Settle(d, outcome) ==
    /\ copy[d] = "open" \/ (late /\ copy[d] # "none")
    /\ outcome = "delivered" => d \in asked
    /\ copy' = [copy EXCEPT ![d] = outcome]
    /\ asked' \in {asked, asked \ {d}}
    /\ UNCHANGED <<holder, entitled, event, meant, reopened, late>>

\* An outcome is taken for an error: the copy is to be tried again, or given up.
Reopen(d) ==
    /\ copy[d] # "none"
    /\ \E o \in {"open", "dead_letter"} : copy' = [copy EXCEPT ![d] = o]
    /\ reopened' = [reopened EXCEPT ![d] = @ + 1]
    /\ UNCHANGED <<holder, entitled, event, meant, asked, late>>

\* Answers that nobody waits for any more.
Forget ==
    /\ asked' \in SUBSET asked
    /\ UNCHANGED <<holder, entitled, event, copy, meant, reopened, late>>

OutliveLease ==
    /\ late' = TRUE
    /\ UNCHANGED <<holder, entitled, event, copy, meant, asked, reopened>>

Next ==
    \/ \E e \in Events : Queue(e)
    \/ CloseEvents
    \/ \E s \in Subs, b \in BOOLEAN : Entitle(s, b)
    \/ \E s \in Subs, h \in Users \cup {None} : ChangeHands(s, h)
    \/ \E d \in Copies : Ask(d) \/ Reopen(d)
    \/ \E d \in Copies, o \in {"open", "delivered", "dead_letter", "skipped"} :
           Settle(d, o)
    \/ Forget
    \/ OutliveLease

Spec == Init /\ [][Next]_vars

=============================================================================
