----------------------------- MODULE Storefront -----------------------------
(***************************************************************************)
(* What connected platforms and the owner may rely on when the platforms   *)
(* keep the products of a shop: there are pages that have come, but no     *)
(* tables of pages and memberships, nothing is read back, and a callback   *)
(* is one step.  A snapshot counts as a whole or not at all, but for the   *)
(* first one of a single stream when an accident happens; a stream         *)
(* whose snapshots have an order goes forward only.  In the step in which  *)
(* a snapshot starts to count, or a connection comes or goes, every        *)
(* product about which a connected platform changes its mind is shown or   *)
(* hidden.  Otherwise only the owner, a sale or an accident touches        *)
(* products, and those are put right when a platform next names them.      *)
(***************************************************************************)
EXTENDS Naturals

CONSTANTS
    Integrations, Streams, Of, Paged, Products, PageCount,
    AllPages       \* page p of snapshot n, by date, of stream s: <<s, n, p>>

VARIABLES
    status,    \* "active", "connected" or "off"
    log,       \* the pages that have come
    version,   \* the snapshot of a stream that counts; 0 for none
    offers,    \* the products that it lists as active
    lost,      \* products that an accident keeps from being offered
    shown,     \* "none", "hidden" or "shown"
    astray     \* products that need not be right

vars == <<status, log, version, offers, lost, shown, astray>>

Init ==
    /\ status = [i \in Integrations |-> "active"]
    /\ log = [page \in AllPages |-> log[page]]
    /\ version = [s \in Streams |-> 0]
    /\ offers = [s \in Streams |-> {}]
    /\ lost = [s \in Streams |-> {}]
    /\ shown \in [Products -> {"none", "hidden", "shown"}]
    /\ astray = Products

----------------------------------------------------------------------------

\* Every page of snapshot n has come, and one says that there are no more.
Whole(lg, s, n) ==
    /\ \A p \in 1..PageCount[s] : <<s, n, p>> \in AllPages /\ lg[<<s, n, p>>].come
    /\ \E p \in 1..PageCount[s] : lg[<<s, n, p>>].complete

\* What its pages list as active.
Listed(lg, s, n) ==
    {x \in Products :
        \E p \in 1..PageCount[s] : lg[<<s, n, p>>].items[x] = "active"}

\* A connected platform offers the product.
Offered(s, x) == x \in offers[s] /\ status[Of[s]] # "off"

\* Whole snapshots begin to count; products may be lost of one that is a
\* stream's first, for the streams in cut.
Advance(cut) ==
    /\ version' \in [Streams -> Nat]
    /\ offers' \in [Streams -> SUBSET Products]
    /\ lost' \in [Streams -> SUBSET Products]
    /\ \A s \in Streams :
        \/ /\ version'[s] = version[s]
           /\ offers'[s] = offers[s] /\ lost'[s] = lost[s]
        \/ /\ Whole(log', s, version'[s])
           /\ offers'[s] = Listed(log', s, version'[s]) \ lost'[s]
           /\ s \in Paged => version'[s] > version[s]
           /\ lost'[s] # {} => s \in cut /\ version[s] = 0

\* The products in K are put right, and nobody changed his mind about others.
PutRight ==
    /\ shown' \in [Products -> {"none", "hidden", "shown"}]
    /\ \E K \in SUBSET Products :
        /\ astray' = astray \ K
        /\ \A x \in K :
               \/ shown[x] = "none" /\ shown'[x] = "none"
               \/ shown'[x] = IF \E s \in Streams : Offered(s, x)'
                              THEN "shown" ELSE "hidden"
        /\ \A x \in Products \ K :
               /\ shown'[x] = shown[x]
               /\ \A s \in Streams : Offered(s, x)' <=> Offered(s, x)

\* A page comes.
Arrive(page) ==
    /\ ~log[page].come /\ log'[page].come
    /\ log' = [log EXCEPT ![page] = log'[page]]
    /\ status[Of[page[1]]] = "active"
    /\ UNCHANGED status
    /\ Advance({})
    /\ PutRight

Connect(i, new) ==
    /\ status' = [status EXCEPT ![i] = new]
    /\ UNCHANGED log
    /\ Advance({})
    /\ PutRight

\* A connection changes, and the products are left as they are; if a snapshot
\* begins to count, it may do so in part.
Accident(i, new) ==
    /\ status' = [status EXCEPT ![i] = new]
    /\ UNCHANGED <<log, shown>>
    /\ \E s \in Streams : Advance({s})
    /\ astray' = Products

\* The owner, or a sale of a product that has no row.
Touch(x, v) ==
    /\ shown[x] # "none" \/ \E i \in Integrations : status[i] = "active"
    /\ shown' = [shown EXCEPT ![x] = v]
    /\ astray' = astray \cup {x}
    /\ UNCHANGED <<status, log, version, offers, lost>>

Next ==
    \/ \E page \in AllPages : Arrive(page)
    \/ \E i \in Integrations, new \in {"active", "connected", "off"} :
           Connect(i, new) \/ Accident(i, new)
    \/ \E x \in Products, v \in {"none", "hidden", "shown"} : Touch(x, v)

Spec == Init /\ [][Next]_vars

=============================================================================
