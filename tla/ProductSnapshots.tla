-------------------------- MODULE ProductSnapshots --------------------------
(***************************************************************************)
(* Products that connected platforms keep in a tenant's shop: the product  *)
(* snapshots, sales and lifecycle callbacks that                           *)
(* server/services/savanaIntegration.js receives, and the owner's edits in *)
(* server/routes/messengerBotProducts.js.                                  *)
(*                                                                         *)
(* A platform describes its catalogue again and again, each time in a      *)
(* snapshot of one or several pages; every page is an event of its own and *)
(* comes once, in any order.  A product is shown while the last complete   *)
(* snapshot of some connected platform lists it as active.  An event is    *)
(* one transaction; a lifecycle callback is not, and a crash may cut it    *)
(* off.  The tables for snapshots came with a migration: events from       *)
(* before it are read back once, row by row, and never again once a row is *)
(* there.  Details of products, stock and the signatures are left out; so  *)
(* are snapshots without a date.                                           *)
(***************************************************************************)
EXTENDS Naturals, FiniteSets

CONSTANTS
    Integrations,   \* connections to other platforms
    Streams,        \* kinds of snapshot events
    Of,             \* the integration of a stream
    Paged,          \* streams whose snapshots have an id; the others are of
                    \* the legacy form, one page without an id
    Products,       \* products, by projection key
    MaxSnapshots,   \* bound: snapshots of a stream, by date (generated_at)
    PageCount,      \* page_count of a stream's snapshots
    Past(_, _),     \* bound: a snapshot that may come before the migration
    MaxAccidents    \* bound: lifecycle callbacks cut off by a crash

ASSUME SnapshotConstants ==
    /\ Of \in [Streams -> Integrations]
    /\ Paged \subseteq Streams
    /\ MaxSnapshots \in [Streams -> Nat \ {0}]
    /\ PageCount \in [Streams -> Nat \ {0}]
    /\ \A s \in Streams \ Paged : PageCount[s] = 1
    /\ MaxAccidents \in Nat

Snapshots(s) == 1..MaxSnapshots[s]
Pages(s) == 1..PageCount[s]

\* What a page says of each product, and its flag `complete`.
Listing == [Products -> {"absent", "inactive", "active"}]
Content == [come : {TRUE}, items : Listing, complete : BOOLEAN]
NotReceived ==
    [come |-> FALSE, items |-> [x \in Products |-> "absent"], complete |-> FALSE]

VARIABLES
    \* table savana_integrations
    status,    \* status: active; connected without events (paused, degraded);
               \* or off (revoked, disconnected, error, not yet approved)
    \* table savana_integration_events
    log,       \* what was received as page p of snapshot n of stream s
    \* tables savana_product_snapshot_streams, _pages and _memberships
    latest,    \* latest_snapshot_id, as a number; 0 without a row
    applied,   \* applied_snapshot_id; 0 for NULL
    stored,    \* rows of latest_snapshot_id in the table of pages
    member,    \* is_active of a product in a stream's membership
    \* table bot_products
    shown,     \* is_active; "none" without a row of that projection key
    \* history
    early,     \* pages that were received before the migration
    astray,    \* products that nobody put right since the owner edited them,
               \* or since a crash cut off what would have put them right
    lost,      \* products of a stream's applied snapshot whose memberships a
               \* crash kept from being read back
    accidents

tables == <<latest, applied, stored, member>>
history == <<early, accidents>>
vars == <<status, log, tables, shown, history, astray, lost>>

PagesOf(s) == {<<s, n, p>> : n \in Snapshots(s), p \in Pages(s)}
AllPages == UNION {PagesOf(s) : s \in Streams}

TypeOK ==
    /\ status \in [Integrations -> {"active", "connected", "off"}]
    /\ log \in [AllPages -> Content \cup {NotReceived}]
    /\ latest \in [Streams -> Nat]
    /\ applied \in [Streams -> Nat]
    /\ stored \in [Streams -> SUBSET Nat]
    /\ member \in [Streams -> [Products -> {"none", "inactive", "active"}]]
    /\ shown \in [Products -> {"none", "hidden", "shown"}]
    /\ early \subseteq AllPages
    /\ astray \subseteq Products
    /\ lost \in [Streams -> SUBSET Products]
    /\ accidents \in 0..MaxAccidents

----------------------------------------------------------------------------
(* Snapshots *)

Received(lg, s, n) == {p \in Pages(s) : lg[<<s, n, p>>].come}

Lists(lg, s, n, p, x) == lg[<<s, n, p>>].items[x] # "absent"

\* Mutant of Merged: only the last page, with the products it does not list.
Merged_LastPage(lg, s, n) == lg[<<s, n, PageCount[s]>>].items

\* The products of a snapshot, as far as its pages have come.
Merged(lg, s, n) ==
    [x \in Products |->
        IF \E p \in Pages(s) : Lists(lg, s, n, p, x)
        THEN lg[<<s, n, CHOOSE p \in Pages(s) : Lists(lg, s, n, p, x)>>].items[x]
        ELSE "none"]

\* The memberships mb without those of the products in X.
Without(mb, X) == [x \in Products |-> IF x \in X THEN "none" ELSE mb[x]]

\* All pages and, on some page, the word that there are no more.
Complete(lg, s, n) ==
    /\ Received(lg, s, n) = Pages(s)
    /\ \E p \in Pages(s) : lg[<<s, n, p>>].complete

\* A snapshot names a product once, and its last page is the one that says so.
MayCome(lg, s, n, p, c) ==
    /\ s \in Paged => c.complete = (p = PageCount[s])
    /\ \A x \in Products, q \in Pages(s) :
           c.items[x] # "absent" => ~Lists(lg, s, n, q, x)

Visible(mb, st, x) ==
    \E s \in Streams : mb[s][x] = "active" /\ st[Of[s]] # "off"

Members(mb, s) == {x \in Products : mb[s][x] # "none"}

\* reconcileSnapshotProductVisibility(): products without a row stay so.
Reconciled(sh, keys, mb, st) ==
    [x \in Products |->
        IF x \notin keys \/ sh[x] = "none" THEN sh[x]
        ELSE IF Visible(mb, st, x) THEN "shown" ELSE "hidden"]

----------------------------------------------------------------------------
(* ensureSnapshotMembershipBackfill() *)

Initialized == \E s \in Streams : latest[s] # 0

Newest(S) == IF S = {} THEN 0 ELSE CHOOSE n \in S : \A m \in S : m <= n

LatestIn(lg, s) == Newest({n \in Snapshots(s) : Received(lg, s, n) # {}})
AppliedIn(lg, s) == Newest({n \in Snapshots(s) : Complete(lg, s, n)})

\* The tables after the events of the streams in S were read back.  The pages
\* are not: a snapshot of which a part has come stays without it.
Backfilled(lg, S) ==
    [latest  |-> [s \in Streams |->
                     IF s \in S THEN LatestIn(lg, s) ELSE latest[s]],
     applied |-> [s \in Streams |->
                     IF s \in S THEN AppliedIn(lg, s) ELSE applied[s]],
     member  |-> [s \in Streams |->
                     IF s \in S /\ AppliedIn(lg, s) # 0
                     THEN Merged(lg, s, AppliedIn(lg, s)) ELSE member[s]]]

Backfill(lg) == Backfilled(lg, IF Initialized THEN {} ELSE Streams)

BackfilledKeys(lg) ==
    IF Initialized THEN {}
    ELSE UNION {Members(Backfill(lg).member, s) : s \in Streams}

----------------------------------------------------------------------------
(* Events; receiveEvent() takes them while the integration is active *)

\* Mutant of Accepts: whatever comes last is taken for the latest.
Accepts_AnyAge(s, n, newest) == TRUE

\* Mutant of Accepts: further pages of the latest snapshot are refused.
Accepts_OnlyNewer(s, n, newest) == s \notin Paged \/ n > newest

\* A page of a snapshot that is older than the latest one is only kept.
Accepts(s, n, newest) == s \notin Paged \/ newest = 0 \/ n >= newest

\* receiveEvent(): an active connection, and an event not seen before.
Deliverable(s, n, p) == status[Of[s]] = "active" /\ ~log[<<s, n, p>>].come

\* recordSnapshotPage(): the pages of an earlier snapshot make room.
PagesWith(newest, s, n, p) == {p} \cup (IF newest = n THEN stored[s] ELSE {})

\* Enough pages are in the table of pages.
Ready(lg, s, n, pages) ==
    /\ pages = Pages(s)
    /\ \E p \in pages : lg[<<s, n, p>>].complete

\* Mutant of Replaced: products that the new snapshot drops are overlooked.
Replaced_NewOnly(old, new, s) == Members(new, s)

\* replaceSnapshotMembership() shows or hides what either snapshot lists.
Replaced(old, new, s) == Members(old, s) \cup Members(new, s)

\* applyProductSnapshot(): the page is recorded, its products get rows and,
\* with the last missing page, the stream's membership is replaced.
ReceivePage(s, n, p) ==
    /\ Deliverable(s, n, p)
    /\ \E c \in Content :
        /\ MayCome(log, s, n, p, c)
        /\ log' = [log EXCEPT ![<<s, n, p>>] = c]
        /\ LET before == Backfill(log')
               ok     == Accepts(s, n, before.latest[s])
               pages  == PagesWith(before.latest[s], s, n, p)
               ready  == ok /\ Ready(log', s, n, pages)
               listed == IF ok THEN {x \in Products : c.items[x] # "absent"} ELSE {}
               keys   == BackfilledKeys(log') \cup listed \cup
                             IF ready THEN Replaced(before.member, member', s)
                                      ELSE {}
               rows   == [x \in Products |->
                             IF x \in listed /\ shown[x] = "none" THEN "shown"
                                                                  ELSE shown[x]]
           IN  /\ latest' = IF ok THEN [before.latest EXCEPT ![s] = n]
                                  ELSE before.latest
               /\ stored' = IF ok /\ s \in Paged
                            THEN [stored EXCEPT ![s] = pages] ELSE stored
               /\ applied' = IF ready THEN [before.applied EXCEPT ![s] = n]
                                      ELSE before.applied
               /\ member' = IF ready
                            THEN [before.member EXCEPT ![s] = Merged(log', s, n)]
                            ELSE before.member
               /\ lost' = IF ready THEN [lost EXCEPT ![s] = {}] ELSE lost
               /\ shown' = Reconciled(rows, keys, member', status)
               /\ astray' = astray \ keys
    /\ UNCHANGED <<status, history>>

\* A sale, a stock level or a shelf: a row is made for a product that has
\* none, or the owner's own product of that SKU becomes it as it is.
Mention(i, x) ==
    /\ status[i] = "active"
    /\ shown[x] = "none"
    /\ shown' \in {[shown EXCEPT ![x] = v] : v \in {"shown", "hidden"}}
    /\ astray' = astray \cup {x}
    /\ UNCHANGED <<status, log, tables, history, lost>>

----------------------------------------------------------------------------
(* Lifecycle: callbacks, answers to requests, approval *)

LifecycleKeys(mb, i) == UNION {Members(mb, s) : s \in {t \in Streams : Of[t] = i}}

\* The status changes and what the integration lists is shown or hidden.
ChangeStatus(i, new) ==
    /\ status' = [status EXCEPT ![i] = new]
    /\ LET after == Backfill(log)
           keys  == BackfilledKeys(log) \cup LifecycleKeys(after.member, i)
       IN  /\ latest' = after.latest
           /\ applied' = after.applied
           /\ member' = after.member
           /\ shown' = Reconciled(shown, keys, member', status')
           /\ astray' = astray \ keys
    /\ UNCHANGED <<log, stored, history, lost>>

\* applyLifecycle(), transition() and refreshStatus() store what the central
\* platform reports, which may be outdated when it is an answer.
Report(i) ==
    \E new \in {"active", "connected", "off"} : ChangeStatus(i, new)

\* provisionConnection(): the connection was approved and its secret is here.
Provision(i) == ChangeStatus(i, "active")

\* requestOneClickConnection(): disconnected at first, and after an error;
\* the status in the answer is reported.
RequestConnection(i) == ChangeStatus(i, "off")

\* A crash between the statements: after the status, before the products are
\* shown or hidden, or within the reading back of events.  Then the streams in
\* S have their rows and all memberships but those of the products in X, which
\* belong to the stream t that was being read.
CutOff(i, new) ==
    /\ accidents < MaxAccidents
    /\ accidents' = accidents + 1
    /\ status' = [status EXCEPT ![i] = new]
    /\ \E S \in IF Initialized THEN {{}} ELSE SUBSET Streams :
        LET after == Backfilled(log, S)
        IN  /\ latest' = after.latest
            /\ applied' = after.applied
            /\ \E t \in Streams, X \in SUBSET Products :
                /\ X \subseteq (IF t \in S THEN Members(after.member, t) ELSE {})
                /\ member' = [after.member EXCEPT ![t] = Without(@, X)]
                /\ lost' = [lost EXCEPT ![t] = @ \cup X]
    /\ astray' = Products
    /\ UNCHANGED <<log, stored, shown, early>>

----------------------------------------------------------------------------
(* The owner *)

\* The owner shows, hides or deletes a product.
Edit(x) ==
    /\ shown[x] # "none"
    /\ shown' \in {[shown EXCEPT ![x] = v] : v \in {"none", "shown", "hidden"}}
    /\ astray' = astray \cup {x}
    /\ UNCHANGED <<status, log, tables, history, lost>>

----------------------------------------------------------------------------

\* Streams may have a past: events that came before the migration, and
\* products that were shown or hidden then.
Init ==
    /\ status = [i \in Integrations |-> "active"]
    /\ log \in [AllPages -> Content \cup {NotReceived}]
    /\ \A s \in Streams : \A n \in Snapshots(s), p \in Pages(s) :
        log[<<s, n, p>>].come =>
            /\ Past(s, n)
            /\ MayCome([log EXCEPT ![<<s, n, p>>] = NotReceived], s, n, p,
                       log[<<s, n, p>>])
    /\ latest = [s \in Streams |-> 0]
    /\ applied = [s \in Streams |-> 0]
    /\ stored = [s \in Streams |-> {}]
    /\ member = [s \in Streams |-> [x \in Products |-> "none"]]
    /\ shown \in [Products -> {"none", "hidden", "shown"}]
    /\ early = {page \in AllPages : log[page].come}
    /\ astray = Products
    /\ lost = [s \in Streams |-> {}]
    /\ accidents = 0

Next ==
    \/ \E s \in Streams : \E n \in Snapshots(s), p \in Pages(s) :
           ReceivePage(s, n, p)
    \/ \E i \in Integrations, x \in Products : Mention(i, x)
    \/ \E i \in Integrations :
           \/ Report(i)
           \/ Provision(i)
           \/ RequestConnection(i)
           \/ \E new \in {"active", "connected", "off"} : CutOff(i, new)
    \/ \E x \in Products : Edit(x)

Spec == Init /\ [][Next]_vars

----------------------------------------------------------------------------
(* Properties *)

\* The snapshot applied to a stream is complete and lists a product as active.
Listed(s, x) ==
    /\ applied[s] # 0
    /\ Complete(log, s, applied[s])
    /\ Merged(log, s, applied[s])[x] = "active"

\* A product is shown exactly while some connected platform lists it in the
\* complete snapshot that counts for it: neither fragments, late pages, other
\* platforms nor a lost connection leave it otherwise, until its owner edits
\* it or a crash cuts a callback off.  A listing that such a crash kept from
\* being read back counts for nothing until the stream's next snapshot: the
\* product is hidden when a page or a callback names it.
ShownFollowsSnapshots ==
    \A x \in Products \ astray :
        shown[x] # "none" =>
            (shown[x] = "shown" <=>
                \E s \in Streams :
                    status[Of[s]] # "off" /\ Listed(s, x) /\ x \notin lost[s])

\* Once the pages of a stream's newest snapshot have all come, in whatever
\* order and among whatever late pages of older ones, that snapshot is the one
\* applied.  A snapshot of which a part came before the migration is excepted,
\* and so are streams whose past a crash kept from being read back.
NewestIsApplied ==
    \A s \in Paged :
        LET n == LatestIn(log, s)
        IN  (/\ n # 0
             /\ Received(log, s, n) = Pages(s)
             /\ \A p \in Pages(s) : <<s, n, p>> \notin early)
                => applied[s] = n

\* A stream never returns to an older snapshot.  (A snapshot of the legacy
\* form is taken whatever its date.)
AppliedMovesForward ==
    [][\A s \in Paged : applied'[s] >= applied[s]]_applied

\* What is listed as active in the memberships.
Offers == [s \in Streams |-> {x \in Products : member[s][x] = "active"}]

\* The promise to platforms and owner, see Storefront.
Promise == INSTANCE Storefront WITH version <- applied, offers <- Offers

\* Pages in any order, reading back and callbacks of several statements
\* implement it.
ImplementsStorefront == Promise!Spec

=============================================================================
