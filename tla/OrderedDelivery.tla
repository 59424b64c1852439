-------------------------- MODULE OrderedDelivery --------------------------
(***************************************************************************)
(* What the tenant callback outbox promises to the owner of a callback     *)
(* URL, without leases, workers or retries: the events of one tenant are   *)
(* settled one after the other in the order in which they were queued; an  *)
(* event is received only while it is the oldest unsettled event of its    *)
(* tenant, perhaps several times; it settles as delivered only after it    *)
(* has been received; and it may be given up.  What was given up may still *)
(* arrive, behind later events, only if leases do not outlive deliveries.  *)
(***************************************************************************)
EXTENDS Naturals

CONSTANTS
    Tenants,
    Ids,
    ComesLate  \* TRUE if an event may arrive after it was given up

VARIABLES
    owner,    \* owner[i]: the tenant of event i, or a value outside Tenants
    outcome,  \* outcome[i]: "open", "delivered" or "given_up"
    received  \* the events the tenant's endpoint has received at least once

vars == <<owner, outcome, received>>

Queued == {i \in Ids : owner[i] \in Tenants}

\* The oldest unsettled event of a tenant: the only one that may move.
IsHead(i) ==
    /\ i \in Queued
    /\ outcome[i] = "open"
    /\ \A j \in Queued : j < i /\ owner[j] = owner[i] => outcome[j] # "open"

Init ==
    /\ \A i \in Ids : owner[i] \notin Tenants
    /\ outcome = [i \in Ids |-> "open"]
    /\ received = {}

\* An event enters behind every event that is already queued.
Enqueue(i, t) ==
    /\ i \notin Queued
    /\ \A j \in Queued : j < i
    /\ owner' = [owner EXCEPT ![i] = t]
    /\ UNCHANGED <<outcome, received>>

MayArrive(i) == IsHead(i) \/ (ComesLate /\ outcome[i] = "given_up")

\* The endpoint receives a set of events: several tenants may be served at
\* once, and a crash may reveal several arrivals in one step.
Receive ==
    \E S \in SUBSET {i \in Ids : MayArrive(i)} :
        /\ received' = received \cup S
        /\ UNCHANGED <<owner, outcome>>

\* The endpoint accepted the event and the outbox knows it.
Deliver(i) ==
    /\ IsHead(i)
    /\ outcome' = [outcome EXCEPT ![i] = "delivered"]
    /\ received' = received \cup {i}
    /\ UNCHANGED owner

\* The last permitted attempt failed; the endpoint may have received it.
GiveUp(i) ==
    /\ IsHead(i)
    /\ outcome' = [outcome EXCEPT ![i] = "given_up"]
    /\ received' \in {received, received \cup {i}}
    /\ UNCHANGED owner

Next ==
    \/ \E i \in Ids, t \in Tenants : Enqueue(i, t)
    \/ Receive
    \/ \E i \in Ids : Deliver(i)
    \/ \E i \in Ids : GiveUp(i)

Spec == Init /\ [][Next]_vars

=============================================================================
