--------------------------- MODULE PushDeliveries ---------------------------
(***************************************************************************)
(* The outbox of browser notifications: server/services/webPush.js and the *)
(* maintenance of its tables in server/services/maintenance.js.            *)
(*                                                                         *)
(* Dispatchers work on one delivery at a time, up to eight in a process.   *)
(* One action is one SQLite transaction or an event outside; what runs     *)
(* between two awaits is split at its transactions, since a crash may come *)
(* between them and a second process may overlap.  A crash stops every     *)
(* dispatcher; an error of the database stops one, or makes its catch take *)
(* an outcome back.  Payloads, device limits, alert states are left out.   *)
(***************************************************************************)
EXTENDS Naturals, FiniteSets

CONSTANTS
    Events,         \* notifications, by dedupe key
    Subs,           \* browser endpoints
    Users,
    None,           \* holder of an endpoint without a subscription
    Dispatchers,
    MaxAttempts,    \* WEB_PUSH_MAX_ATTEMPTS: 8
    MaxChanges,     \* bound: changes of subscriptions and of their rights
    MaxFaults       \* bound: crashes, errors of the database, and leases that
                    \* expire under a live dispatcher (the defaults give 300 s
                    \* to two steps of 10 s, but WEB_PUSH_LEASE_MS may be as
                    \* low as 10 s)

ASSUME PushConstants ==
    /\ Events # {}
    /\ Subs # {}
    /\ None \notin Users
    /\ IsFiniteSet(Dispatchers)
    /\ MaxAttempts \in Nat \ {0}
    /\ MaxChanges \in Nat
    /\ MaxFaults \in Nat

Deliveries == Events \X Subs

VARIABLES
    \* table web_push_subscriptions
    holder,    \* user_id; None if there is no row
    entitled,  \* session, user, tenant and preferences allow notifications
    \* table web_push_events
    event,     \* status; "none" before the row exists
    \* table web_push_deliveries
    status,    \* status; "none" if there is no row
    attempts,  \* attempts
    due,       \* available_at has come
    expired,   \* locked_at is older than the lease
    \* memory of the dispatchers
    pc,        \* where a dispatcher stands in dispatchDelivery()
    job,       \* row.id
    seen,      \* row.attempts
    \* history and the outside world
    meant,     \* the user an event was for when its delivery was made
    reopened,  \* how often an error took the outcome of a delivery back
    changes, accidents, stalls

subscriptions == <<holder, entitled, changes>>
table == <<status, attempts, due, expired>>
memory == <<pc, job, seen>>
world == <<meant, reopened, accidents, stalls>>
vars == <<subscriptions, event, table, memory, world>>

Remaining == {"pending", "processing", "failed"}
Closed == {"delivered", "partial", "failed", "no_recipients"}

TypeOK ==
    /\ holder \in [Subs -> Users \cup {None}]
    /\ entitled \in [Subs -> BOOLEAN]
    /\ event \in [Events -> Closed \cup {"none", "pending"}]
    /\ status \in [Deliveries -> Remaining \cup
                       {"none", "delivered", "dead_letter", "skipped"}]
    /\ attempts \in [Deliveries -> Nat]
    /\ due \in [Deliveries -> BOOLEAN]
    /\ expired \in [Deliveries -> BOOLEAN]
    /\ pc \in [Dispatchers -> {"idle", "dead", "skip", "validate", "refuse",
                               "spoilt", "send", "noted", "finalize"}]
    /\ job \in [Dispatchers -> Deliveries]
    /\ seen \in [Dispatchers -> Nat]
    /\ meant \in [Deliveries -> Users \cup {None}]
    /\ reopened \in [Deliveries -> Nat]
    /\ changes \in 0..MaxChanges
    /\ accidents \in 0..MaxFaults
    /\ stalls \in 0..MaxFaults

Nothing == CHOOSE d \in Deliveries : TRUE

\* Nothing is queued; the endpoints have been registered earlier or not.
Init ==
    /\ holder \in {[s \in Subs |-> h] : h \in Users \cup {None}}
    /\ entitled = [s \in Subs |-> holder[s] # None]
    /\ event = [e \in Events |-> "none"]
    /\ status = [d \in Deliveries |-> "none"]
    /\ attempts = [d \in Deliveries |-> 0]
    /\ due = [d \in Deliveries |-> FALSE]
    /\ expired = [d \in Deliveries |-> FALSE]
    /\ pc = [w \in Dispatchers |-> "idle"]
    /\ job = [w \in Dispatchers |-> Nothing]
    /\ seen = [w \in Dispatchers |-> 0]
    /\ meant = [d \in Deliveries |-> None]
    /\ reopened = [d \in Deliveries |-> 0]
    /\ changes = 0
    /\ accidents = 0
    /\ stalls = 0

Goto(w, place) == pc' = [pc EXCEPT ![w] = place]

\* dispatchDelivery() returns and its row is forgotten.
Return(w) ==
    /\ Goto(w, "idle")
    /\ job' = [job EXCEPT ![w] = Nothing]
    /\ seen' = [seen EXCEPT ![w] = 0]

At(w, place) == pc[w] = place

----------------------------------------------------------------------------
(* Events *)

\* Mutant of Open: a delivery that waits for its next attempt is overlooked.
Open_NotFailed(e, st) ==
    \E s \in Subs : st[<<e, s>>] \in {"pending", "processing"}

\* An event has work left.
Open(e, st) == \E s \in Subs : st[<<e, s>>] \in Remaining

\* The status of an event without work left, by its remaining rows.
Verdict(e, st) ==
    LET all == {st[<<e, s>>] : s \in Subs} \ {"none"}
    IN  CASE all \subseteq {"skipped"}  -> "no_recipients"
          [] all = {"delivered"}        -> "delivered"
          [] "delivered" \in all        -> "partial"
          [] OTHER                      -> "failed"

\* finalizePushEvent(): written whatever the status was before.
Finalized(e, st) == IF Open(e, st) THEN event[e] ELSE Verdict(e, st)

\* An event for users of a tenant; the same dedupe key does nothing more.
Enqueue(e) ==
    LET to == {s \in Subs : holder[s] # None /\ entitled[s]}
    IN  /\ event[e] = "none"
        /\ status' = [d \in Deliveries |->
                         IF d[1] = e /\ d[2] \in to THEN "pending" ELSE status[d]]
        /\ due' = [d \in Deliveries |-> due[d] \/ (d[1] = e /\ d[2] \in to)]
        /\ meant' = [d \in Deliveries |->
                        IF d[1] = e /\ d[2] \in to THEN holder[d[2]] ELSE meant[d]]
        /\ event' = [event EXCEPT
                        ![e] = IF to = {} THEN "no_recipients" ELSE "pending"]
        /\ UNCHANGED <<subscriptions, attempts, expired, memory, reopened,
                       accidents, stalls>>

----------------------------------------------------------------------------
(* Subscriptions *)

\* Mutant of Cascade: the rows stay behind.
Cascade_Kept(s) == status

\* The deliveries of a deleted subscription go with it.
Cascade(s) == [d \in Deliveries |-> IF d[2] = s THEN "none" ELSE status[d]]

\* deleteSubscriptionById(): the events of its deliveries are finalised.
Delete(s) ==
    /\ status' = Cascade(s)
    /\ event' = [e \in Events |->
                    IF status[<<e, s>>] # "none" THEN Finalized(e, status')
                                                 ELSE event[e]]

\* Bound: the subscriptions and what they depend on change so often.
Change == changes < MaxChanges /\ changes' = changes + 1

\* The browser of a user registers; from another user it takes the endpoint.
Register(s, u) ==
    /\ Change
    /\ \/ /\ holder[s] \in {None, u}
          /\ UNCHANGED <<status, event>>
       \/ /\ holder[s] \notin {None, u}
          /\ Delete(s)
    /\ holder' = [holder EXCEPT ![s] = u]
    /\ entitled' = [entitled EXCEPT ![s] = TRUE]
    /\ UNCHANGED <<attempts, due, expired, memory, world>>

\* The user turns notifications off.
Remove(s) ==
    /\ Change
    /\ holder[s] # None
    /\ Delete(s)
    /\ holder' = [holder EXCEPT ![s] = None]
    /\ UNCHANGED <<entitled, attempts, due, expired, memory, world>>

\* Maintenance deletes the subscription of an expired session, or a user or a
\* tenant is deleted: no event is finalised.
Expire(s) ==
    /\ Change
    /\ holder[s] # None
    /\ status' = Cascade(s)
    /\ holder' = [holder EXCEPT ![s] = None]
    /\ UNCHANGED <<entitled, event, attempts, due, expired, memory, world>>

\* Logout, password reset, suspension or a preference, and back again.
ChangeEntitlement(s) ==
    /\ Change
    /\ holder[s] # None
    /\ entitled' = [entitled EXCEPT ![s] = ~@]
    /\ UNCHANGED <<holder, event, table, memory, world>>

----------------------------------------------------------------------------
(* dispatchDelivery() *)

Eligible(d) == holder[d[2]] # None /\ entitled[d[2]]

\* Whatever its attempts: the limit is looked at after a failure only.
Claimable(d) ==
    \/ status[d] \in {"pending", "failed"} /\ due[d]
    \/ status[d] = "processing" /\ expired[d]

Claim(w, d) ==
    /\ At(w, "idle")
    /\ Claimable(d)
    /\ status' = [status EXCEPT ![d] = "processing"]
    /\ attempts' = [attempts EXCEPT ![d] = @ + 1]
    /\ expired' = [expired EXCEPT ![d] = FALSE]
    /\ \/ Eligible(d) /\ Goto(w, "validate")
       \/ Eligible(d) /\ Goto(w, "dead")    \* the endpoint does not decrypt
       \/ ~Eligible(d) /\ Goto(w, "skip")
    /\ job' = [job EXCEPT ![w] = d]
    /\ seen' = [seen EXCEPT ![w] = attempts'[d]]
    /\ UNCHANGED <<subscriptions, event, due, world>>

\* Mutant of MaySend: what was true at the claim is still trusted.
MaySend_Claimed(d) == TRUE

MaySend(d) == Eligible(d)

\* Another dispatcher has claimed or settled the row meanwhile.
Taken(w) ==
    /\ status[job[w]] # "none"
    /\ status[job[w]] # "processing" \/ attempts[job[w]] # seen[w]

\* The endpoint's name is resolved and the row is read again; the provider is
\* called in the same stretch without await, unless the endpoint does not
\* decrypt any more.
Recheck(w) ==
    /\ At(w, "validate")
    /\ \/ /\ status[job[w]] = "none"
          /\ Goto(w, "noted")
          /\ UNCHANGED <<job, seen>>
       \/ /\ Taken(w)
          /\ Return(w)
       \/ /\ status[job[w]] # "none" /\ ~Taken(w)
          /\ \/ MaySend(job[w]) /\ Goto(w, "send")
             \/ MaySend(job[w]) /\ Goto(w, "spoilt")
             \/ ~MaySend(job[w]) /\ Goto(w, "refuse")
          /\ UNCHANGED <<job, seen>>
    /\ UNCHANGED <<subscriptions, event, table, world>>

\* An outcome is written by id, whoever owns the row: not at all to one that
\* is gone.
Write(w, outcome) ==
    status' = [status EXCEPT
                  ![job[w]] = IF @ = "none" THEN "none" ELSE outcome]

\* At "noted" the dispatcher is still inside the try, at "finalize" outside.
Settle(w, outcome, place) ==
    /\ Write(w, outcome)
    /\ Goto(w, place)
    /\ UNCHANGED <<subscriptions, event, attempts, due, expired, job, seen,
                   world>>

\* The row that is not eligible, or whose endpoint does not decrypt, at the
\* claim and at the re-check.
SettleUnsent(w) ==
    \/ At(w, "skip") /\ Settle(w, "skipped", "finalize")
    \/ At(w, "dead") /\ Settle(w, "dead_letter", "finalize")
    \/ At(w, "refuse") /\ Settle(w, "skipped", "noted")
    \/ At(w, "spoilt") /\ Settle(w, "dead_letter", "noted")

Deliver(w) == At(w, "send") /\ Settle(w, "delivered", "noted")

\* Mutant of AttemptsLeft: one attempt more than the limit.
AttemptsLeft_OneMore(w) == seen[w] <= MaxAttempts

AttemptsLeft(w) == seen[w] < MaxAttempts

\* Mutant of RetryStatus: a status the table does not know.
RetryStatus_Unknown == "retry"

RetryStatus == "failed"

\* The catch writes the row for another attempt, by its id.
SendBack(w) ==
    /\ AttemptsLeft(w)
    /\ Write(w, RetryStatus)
    /\ due' = [due EXCEPT ![job[w]] = FALSE]
    /\ Return(w)

\* A transient error, an answer that does not come in time, or an outcome the
\* database does not take.
Retry(w) ==
    /\ pc[w] \in {"validate", "refuse", "spoilt", "send"}
    /\ SendBack(w)
    /\ UNCHANGED <<subscriptions, event, attempts, expired, world>>

\* An unsafe endpoint, an error that is not transient, or any error after the
\* last attempt.
GiveUp(w) ==
    /\ pc[w] \in {"validate", "refuse", "spoilt", "send"}
    /\ pc[w] \in {"refuse", "spoilt"} => ~AttemptsLeft(w)
    /\ Settle(w, "dead_letter", "finalize")

\* 404 or 410: the subscription of the row is deleted by its id, which a new
\* one of the same endpoint does not have.
Gone(w) ==
    LET s == job[w][2]
    IN  /\ At(w, "send")
        /\ \/ /\ status[job[w]] # "none"
              /\ Delete(s)
              /\ holder' = [holder EXCEPT ![s] = None]
           \/ /\ status[job[w]] = "none"
              /\ UNCHANGED <<status, event, holder>>
        /\ Return(w)
        /\ UNCHANGED <<entitled, changes, attempts, due, expired, world>>

Finalize(w) ==
    LET e == job[w][1]
    IN  /\ pc[w] \in {"noted", "finalize"}
        /\ event' = [event EXCEPT ![e] = Finalized(e, status)]
        /\ Return(w)
        /\ UNCHANGED <<subscriptions, table, world>>

Work(w) ==
    \/ Recheck(w) \/ SettleUnsent(w) \/ Deliver(w) \/ GiveUp(w) \/ Retry(w)
    \/ Gone(w) \/ Finalize(w)

\* Bound: crashes and errors of the database.
Accident == accidents + stalls < MaxFaults /\ accidents' = accidents + 1

\* The note of the success on the subscription or finalizeEvent() throws: the
\* catch takes the outcome for a transient error, and writes over it.
Overwrite(w) ==
    /\ At(w, "noted")
    /\ Accident
    /\ \/ SendBack(w)
       \/ /\ ~AttemptsLeft(w)
          /\ Write(w, "dead_letter")
          /\ Goto(w, "finalize")
          /\ UNCHANGED <<due, job, seen>>
    /\ reopened' = [reopened EXCEPT
                       ![job[w]] = IF status[job[w]] = "none" THEN @ ELSE @ + 1]
    /\ UNCHANGED <<subscriptions, event, attempts, expired, meant, stalls>>

\* An error outside of the try, or in its catch, leaves dispatchDelivery().
Abandon(w) ==
    /\ ~At(w, "idle")
    /\ Accident
    /\ Return(w)
    /\ UNCHANGED <<subscriptions, event, table, meant, reopened, stalls>>

----------------------------------------------------------------------------
(* Time, maintenance and crashes *)

BecomeDue(d) ==
    /\ status[d] = "failed"
    /\ ~due[d]
    /\ due' = [due EXCEPT ![d] = TRUE]
    /\ UNCHANGED <<subscriptions, event, status, attempts, expired, memory,
                   world>>

Held(d) == \E w \in Dispatchers : ~At(w, "idle") /\ job[w] = d

LeaseExpires(d) ==
    /\ status[d] = "processing"
    /\ ~expired[d]
    /\ expired' = [expired EXCEPT ![d] = TRUE]
    /\ \/ ~Held(d) /\ UNCHANGED stalls
       \/ Held(d) /\ accidents + stalls < MaxFaults /\ stalls' = stalls + 1
    /\ UNCHANGED <<subscriptions, event, status, attempts, due, memory, meant,
                   reopened, accidents>>

\* Mutant of Closable: no maintenance.
Closable_Never(e) == FALSE

Closable(e) == event[e] = "pending" /\ ~Open(e, status)

\* Maintenance closes events whose dispatcher died before finalizeEvent().
Maintain(e) ==
    /\ Closable(e)
    /\ event' = [event EXCEPT ![e] = Verdict(e, status)]
    /\ UNCHANGED <<subscriptions, table, memory, world>>

Crash ==
    /\ Accident
    /\ \E w \in Dispatchers : ~At(w, "idle")
    /\ pc' = [w \in Dispatchers |-> "idle"]
    /\ job' = [w \in Dispatchers |-> Nothing]
    /\ seen' = [w \in Dispatchers |-> 0]
    /\ UNCHANGED <<subscriptions, event, table, meant, reopened, stalls>>

Next ==
    \/ \E e \in Events : Enqueue(e) \/ Maintain(e)
    \/ \E s \in Subs : Remove(s) \/ Expire(s) \/ ChangeEntitlement(s)
    \/ \E s \in Subs, u \in Users : Register(s, u)
    \/ \E w \in Dispatchers : Work(w) \/ Overwrite(w) \/ Abandon(w)
    \/ \E w \in Dispatchers, d \in Deliveries : Claim(w, d)
    \/ \E d \in Deliveries : BecomeDue(d) \/ LeaseExpires(d)
    \/ Crash

Spec == Init /\ [][Next]_vars

ClaimDelivery(d) == \E w \in Dispatchers : Claim(w, d)

\* The timers dispatch and maintain for ever and time passes; dispatchers
\* take the due rows in order, so each is taken in the end.
Fairness ==
    /\ \A w \in Dispatchers : WF_vars(Work(w))
    /\ \A d \in Deliveries :
        /\ SF_vars(ClaimDelivery(d))
        /\ WF_vars(BecomeDue(d))
        /\ WF_vars(LeaseExpires(d))
    /\ \A e \in Events : WF_vars(Maintain(e))

FairSpec == Spec /\ Fairness

----------------------------------------------------------------------------
(* Properties *)

\* The provider is called only for the user the event was meant for, and only
\* while that user is entitled to it, although the endpoint may change hands
\* and rights may go while its name is being resolved.
SentOnlyToEntitled ==
    [][\A w \in Dispatchers : ~At(w, "send") /\ pc'[w] = "send" =>
           LET d == job[w]
           IN  entitled[d[2]] /\ holder[d[2]] = meant[d]]_vars

\* A closed event has no work left: no delivery is sent, or waits to be sent,
\* for an event that history shows as settled (and that retention deletes),
\* unless an error took its outcome back.
ClosedEventHasNoWork ==
    stalls = 0 =>
        \A d \in Deliveries :
            event[d[1]] \in Closed /\ status[d] \in Remaining => reopened[d] > 0

\* A delivery is tried as often as it may be, and once more for each crash,
\* error or lease that took an attempt without an outcome.
AttemptsWithinBudget ==
    \A d \in Deliveries : attempts[d] <= MaxAttempts + accidents + stalls

\* Every event is closed in the end, whatever happens to its subscriptions
\* and dispatchers.
EveryEventCloses ==
    \A e \in Events : event[e] = "pending" ~> event[e] \in Closed

\* What a user may know of a delivery: claims and retries are invisible.
Copy ==
    [d \in Deliveries |-> IF status[d] \in Remaining THEN "open" ELSE status[d]]

\* The calls whose answers somebody waits for.
Asked == {job[w] : w \in {v \in Dispatchers : At(v, "send")}}

\* The promise to the users, see Notifications.
Promise == INSTANCE Notifications WITH
    copy <- Copy, asked <- Asked, late <- stalls > 0

\* The outbox implements it, over any interleaving of dispatchers, changes of
\* endpoints, crashes and errors of the database.
ImplementsNotifications == Promise!Spec

=============================================================================
